---- MODULE Spec2Model ----
(***************************************************************************)
(* gr-opus: the buffering and framing logic of the two streaming adapters  *)
(* python/opus_encoder.py (opus_encoder.work) and python/opus_decoder.py   *)
(* (opus_decoder.work).  The host scheduler calls work() repeatedly with a *)
(* fresh input chunk and an output region; the codec engine (opuslib) is a *)
(* black box whose result on each invocation is a nondeterministic choice  *)
(* among the results its contract allows (failure, or a packet / PCM).     *)
(***************************************************************************)
EXTENDS Integers, Sequences, FiniteSets, TLC

VARIABLES
    block,            \* which adapter instance the scheduler drives
    channels,         \* self.channels
    packet_size,      \* opus_decoder.packet_size (0 = variable-size mode)
    sample_buffer,    \* opus_encoder.sample_buffer
    packet_buffer,    \* opus_decoder.packet_buffer
    pc,               \* position inside work(): "idle" is "returned / not called"
    in0,              \* input_items[0]: the input of the current call not yet taken
    out,              \* output_items[0]; NoVal marks a position not written in this call
    output_idx,       \* local output_idx
    excess,           \* local excess of the append step (0 when nothing was evicted)
    ret,              \* value returned by the last completed call (0 during a call)
    frame_samples,    \* encoder local: the extracted frame (reshaped when stereo)
    int16_samples,    \* encoder local: the quantized frame handed to encoder.encode
    packet,           \* decoder local: the bytes handed to decoder.decode
    decoded_pcm,      \* decoder local: result of decoder.decode
    raised,           \* decoder: decoder.decode raised instead of returning
    packet_size_candidates, \* decoder local: the sorted candidate list
    cand_idx,         \* decoder local: position of the for loop in the candidate list
    event,            \* what the last step of work() did
    n_codec_calls,    \* number of codec invocations made by the current call
    n_written,        \* number of packets the current call wrote output for
    pushed,           \* <<frame, packet>> pushed back by the current call, <<>> if none
    pending,          \* <<frame, packet>> pushed back by the previous call, <<>> if none
                      \* (kept until the first encode of this call has returned)
    at_extract,       \* encoder: the queue as it was when the frame in hand was extracted
    before,           \* queue length at the entry of the current call
    nin,              \* len(in0) at the entry of the current call
    twin,             \* comparison of two encoder instances: what both are given, how
                      \* the engine answers, what the first one returned (<<>> when
                      \* a single instance is studied)
    stream,           \* bookkeeping of the encoder's input stream when the samples are
                      \* told apart by their position in it (<<>> otherwise)
    instances,        \* the class-level list _instances, as object numbers
    objects           \* the adapter objects ever allocated, by object number

vars == <<block, channels, packet_size, sample_buffer, packet_buffer, pc, in0, out,
          output_idx, excess, ret, frame_samples, int16_samples, packet, decoded_pcm,
          raised, packet_size_candidates, cand_idx, event, n_codec_calls, n_written,
          pushed, pending, at_extract, before, nin, twin, stream, instances,
          objects>>

encVars == <<sample_buffer, frame_samples, int16_samples, pushed, pending, at_extract>>
decVars == <<packet_buffer, packet, decoded_pcm, raised, packet_size_candidates,
            cand_idx>>
lifeVars == <<instances, objects>>
workVars == <<block, channels, packet_size, sample_buffer, packet_buffer, pc, in0, out,
              output_idx, excess, ret, frame_samples, int16_samples, packet,
              decoded_pcm, raised, packet_size_candidates, cand_idx, event,
              n_codec_calls, n_written, pushed, pending, at_extract, before, nin, twin,
              stream>>

----------------------------------------------------------------------------
(* Bounds of the model.  The code's sizes are scaled down: a frame is       *)
(* FrameSize samples per channel (the code: int(sample_rate * 0.020)), the  *)
(* sample queue holds MaxBufferSamples samples per channel (the code:       *)
(* sample_rate * 10) and the byte queue MaxBufferSize bytes (the code:      *)
(* 1024 * 1024).  A local variable of work() is kept in the state only as   *)
(* long as the code still reads it.                                         *)
FrameSize == 1
MaxBufferSamples == 2
MaxBufferSize == 3
MaxChunk == 2
MaxOut == 2
MaxPacketLen == 2
MaxPacketSize == 2

\* The candidate list is a function of the queue length alone; it is also examined on
\* its own for every queue length up to MaxLadderQueue (within the code's 1 MiB).
MaxLadderQueue == 4100

\* The queue lengths up to which the scan over the candidate list is run as well.
MaxScanQueue == 450

\* Adapter objects constructed by one caller, when construction and finalization are
\* examined.
MaxInstances == 2

\* Samples in [-1, 1] are the fractions n/d with d up to MaxDenominator, when the
\* conversions between float and int16 are examined on their own.
MaxDenominator == 8

\* Samples delivered to one encoder, when they are told apart by their position in the
\* input stream.
MaxStream == 6

max_int16 == 32767
max_candidates == 50

\* out holds <<v>> where the call wrote the item v, and NoVal elsewhere
NoVal == <<>>

\* Input samples are exact rationals <<numerator, denominator>> in [-1, 1].
SampleVals == { <<-1, 1>>, <<1, 2>> }
ByteVals == {0, 255}
PcmVals == {100, 101, -32768}

----------------------------------------------------------------------------
(* Sequences *)

Min(a, b) == IF a <= b THEN a ELSE b
Max(a, b) == IF a >= b THEN a ELSE b

\* Python s[:n] and s[n:] for 0 <= n
Take(s, n) == SubSeq(s, 1, Min(n, Len(s)))
Drop(s, n) == SubSeq(s, Min(n, Len(s)) + 1, Len(s))

SeqsUpTo(S, n) == UNION { [1..k -> S] : k \in 0..n }

\* The scaled sizes of an adapter instance
frame_size == FrameSize
frame_size_samples == frame_size * channels
max_buffer_samples == MaxBufferSamples * channels
max_buffer_size == MaxBufferSize

\* "if len(buf) > max: excess = len(buf) - max" (0 when the branch is not taken)
Excess(buf, max) == IF Len(buf) > max THEN Len(buf) - max ELSE 0

\* faulty variants of DropOldest: the trim keeps one element too many / drops the newest
DropOldest_KeepsOneMore(buf, max) == Drop(buf, Excess(buf, max + 1))
DropOldest_DropsNewest(buf, max) == Take(buf, max)

\* "buf = buf[excess:]" / "del buf[:excess]"
DropOldest(buf, max) == Drop(buf, Excess(buf, max))

\* faulty variant of ConsumePrefix: the last element of the prefix stays queued
ConsumePrefix_LeavesLast(buf, n) == Drop(buf, Max(n - 1, 0))

\* "buf = buf[n:]" / "del buf[:n]": remove the first n elements
ConsumePrefix(buf, n) == Drop(buf, n)

----------------------------------------------------------------------------
(* Encoder: frame handling *)

\* frame_samples.reshape(-1, channels): rows of one sample per channel
Reshape(frame, ch) ==
    [r \in 1..(Len(frame) \div ch) |-> SubSeq(frame, (r - 1) * ch + 1, r * ch)]

\* frame_samples.flatten(): row-major concatenation of the rows
RECURSIVE Flatten(_)
Flatten(rows) ==
    IF rows = <<>> THEN <<>> ELSE Head(rows) \o Flatten(Tail(rows))

\* the frame as the loop body holds it: reshaped only when channels > 1
Shaped(frame, ch) == IF ch > 1 THEN Reshape(frame, ch) ELSE frame
Unshaped(shaped, ch) == IF ch > 1 THEN Flatten(shaped) ELSE shaped

\* faulty variant of Quantize: the product is rounded down
Quantize_Floor(s) == (s[1] * max_int16) \div s[2]

\* (s * 32767).astype(int16): truncation toward zero of the exact product
Quantize(s) ==
    LET p == s[1] * max_int16
    IN  IF p >= 0 THEN p \div s[2] ELSE -((-p) \div s[2])

\* int16_samples.tobytes(): the quantized samples in row-major order
QuantizeFrame(shaped, ch) ==
    LET flat == Unshaped(shaped, ch)
    IN  [i \in 1..Len(flat) |-> Quantize(flat[i])]

\* the packets encoder.encode may return
Packets == SeqsUpTo(ByteVals, MaxPacketLen)

\* out[output_idx : output_idx + len(data)] = data
WriteAt(o, idx, data) ==
    [i \in 1..Len(o) |->
        IF i > idx /\ i <= idx + Len(data) THEN <<data[i - idx]>> ELSE o[i]]

\* faulty variant of PushFront: the frame is put back behind the queue
PushFront_AtTail(shaped, ch, buf) == buf \o Unshaped(shaped, ch)

\* "the frame put back": frame_samples.flatten().tolist() + self.sample_buffer
PushFront(shaped, ch, buf) == Unshaped(shaped, ch) \o buf

\* faulty variant of Fits: the space test is off by one
Fits_OffByOne(data, o, idx) == idx + Len(data) <= Len(o) + 1

\* faulty variant of Fits: a packet that fills the region exactly is refused
Fits_NeedsSpare(data, o, idx) == idx + Len(data) < Len(o)

\* line 139: "if output_idx + len(encoded_data) <= noutput"
Fits(data, o, idx) == idx + Len(data) <= Len(o)

----------------------------------------------------------------------------
(* Encoder: opus_encoder.work *)

\* faulty variant of EncLoopCond: a queue of exactly one frame is not extracted
EncLoopCond_Strict == Len(sample_buffer) > frame_size_samples /\ output_idx < Len(out)

\* faulty variant of EncLoopCond: a partial frame is extracted too
EncLoopCond_AnySamples == Len(sample_buffer) > 0 /\ output_idx < Len(out)

EncLoopCond == Len(sample_buffer) >= frame_size_samples /\ output_idx < Len(out)

\* lines 98-105: the scheduler calls work(input_items, output_items)
EncWorkCall ==
    /\ block = "encoder" /\ pc = "idle"
    /\ \E chunk \in SeqsUpTo(SampleVals, MaxChunk), noutput \in 0..MaxOut :
        /\ in0' = chunk
        /\ nin' = Len(chunk)
        /\ out' = [i \in 1..noutput |-> NoVal]
    /\ before' = Len(sample_buffer)
    /\ pc' = "append"
    /\ event' = "called"
    /\ n_codec_calls' = 0
    /\ n_written' = 0
    /\ excess' = 0
    /\ output_idx' = 0
    /\ pending' = pushed
    /\ pushed' = <<>>
    /\ at_extract' = <<>>
    /\ ret' = 0
    /\ UNCHANGED <<twin, stream, lifeVars, block, channels, packet_size, sample_buffer, frame_samples,
                   int16_samples, decVars>>

\* faulty variant of EncAppend: only as many samples as the output region has places
\* are taken from the input, the rest is left for the scheduler
EncAppend_TakesNoutput ==
    /\ block = "encoder" /\ pc = "append"
    /\ LET taken == Take(in0, Len(out))
       IN  /\ excess' = Excess(sample_buffer \o taken, max_buffer_samples)
           /\ sample_buffer' = DropOldest(sample_buffer \o taken, max_buffer_samples)
           /\ in0' = Drop(in0, Len(out))
    /\ output_idx' = 0
    /\ pc' = "loop"
    /\ event' = "appended"
    /\ UNCHANGED <<twin, stream, lifeVars, block, channels, packet_size, out, ret, frame_samples, int16_samples,
                   n_codec_calls, n_written, pushed, pending, at_extract, before, nin,
                   decVars>>

\* lines 107-118: append the whole input, evict the oldest, reset output_idx
EncAppend ==
    /\ block = "encoder" /\ pc = "append"
    /\ excess' = Excess(sample_buffer \o in0, max_buffer_samples)
    /\ sample_buffer' = DropOldest(sample_buffer \o in0, max_buffer_samples)
    /\ in0' = <<>>
    /\ output_idx' = 0
    /\ pc' = "loop"
    /\ event' = "appended"
    /\ UNCHANGED <<twin, stream, lifeVars, block, channels, packet_size, out, ret, frame_samples, int16_samples,
                   n_codec_calls, n_written, pushed, pending, at_extract, before, nin,
                   decVars>>

\* lines 121-132: the loop condition holds: extract the oldest frame, reshape and
\* quantize it; encoder.encode is invoked on int16_samples
EncExtract ==
    /\ block = "encoder" /\ pc = "loop" /\ EncLoopCond
    /\ LET shaped == Shaped(Take(sample_buffer, frame_size_samples), channels)
       IN  /\ frame_samples' = shaped
           /\ int16_samples' = QuantizeFrame(shaped, channels)
    /\ sample_buffer' = ConsumePrefix(sample_buffer, frame_size_samples)
    /\ at_extract' = sample_buffer
    /\ n_codec_calls' = n_codec_calls + 1
    /\ pc' = "encode"
    /\ event' = "extracted"
    /\ excess' = 0
    /\ UNCHANGED <<twin, stream, lifeVars, block, channels, packet_size, in0, out, output_idx, ret, n_written,
                   pushed, pending, before, nin, decVars>>

\* what every way out of encoder.encode leaves alone
EncAfterEncode ==
    /\ block = "encoder" /\ pc = "encode"
    /\ frame_samples' = <<>>
    /\ int16_samples' = <<>>
    /\ pending' = <<>>
    /\ UNCHANGED <<twin, stream, lifeVars, block, channels, packet_size, in0, excess, n_codec_calls, before,
                   nin, decVars>>

\* lines 136-142: the packet fits: write it and go round the loop again
EncWritePacket ==
    /\ EncAfterEncode
    /\ \E encoded_data \in Packets :
        /\ Fits(encoded_data, out, output_idx)
        /\ out' = WriteAt(out, output_idx, encoded_data)
        /\ output_idx' = output_idx + Len(encoded_data)
    /\ n_written' = n_written + 1
    /\ pc' = "loop"
    /\ event' = "written"
    /\ at_extract' = <<>>
    /\ UNCHANGED <<sample_buffer, ret, pushed>>

\* faulty variant of EncPushBack: the frame is put back but the loop is not left
EncPushBack_NoBreak ==
    /\ EncAfterEncode
    /\ \E encoded_data \in Packets :
        /\ ~Fits(encoded_data, out, output_idx)
        /\ pushed' = <<Unshaped(frame_samples, channels), encoded_data>>
    /\ sample_buffer' = PushFront(frame_samples, channels, sample_buffer)
    /\ pc' = "loop"
    /\ event' = "pushed_back"
    /\ UNCHANGED <<out, output_idx, ret, n_written, at_extract>>

\* lines 143-146, 167: the packet does not fit: put the frame back, break, return
EncPushBack ==
    /\ EncAfterEncode
    /\ \E encoded_data \in Packets :
        /\ ~Fits(encoded_data, out, output_idx)
        /\ pushed' = <<Unshaped(frame_samples, channels), encoded_data>>
    /\ sample_buffer' = PushFront(frame_samples, channels, sample_buffer)
    /\ pc' = "idle"
    /\ ret' = output_idx
    /\ event' = "pushed_back"
    /\ UNCHANGED <<out, output_idx, n_written, at_extract>>

\* faulty variant of EncEncodeFails: the frame is put back in front of the queue
EncEncodeFails_PutsBack ==
    /\ EncAfterEncode
    /\ sample_buffer' = PushFront(frame_samples, channels, sample_buffer)
    /\ pc' = "idle"
    /\ ret' = output_idx
    /\ event' = "encode_failed"
    /\ at_extract' = <<>>
    /\ UNCHANGED <<out, output_idx, n_written, pushed>>

\* lines 147-152, 167: encoder.encode raises: break, return
EncEncodeFails ==
    /\ EncAfterEncode
    /\ pc' = "idle"
    /\ ret' = output_idx
    /\ event' = "encode_failed"
    /\ at_extract' = <<>>
    /\ UNCHANGED <<sample_buffer, out, output_idx, n_written, pushed>>

\* lines 121, 167: the loop condition is false: return
EncReturn ==
    /\ block = "encoder" /\ pc = "loop" /\ ~EncLoopCond
    /\ pc' = "idle"
    /\ ret' = output_idx
    /\ event' = "loop_ended"
    /\ excess' = 0
    /\ UNCHANGED <<twin, stream, lifeVars, block, channels, packet_size, in0, out, output_idx,
                   n_codec_calls, n_written, before, nin, encVars, decVars>>

----------------------------------------------------------------------------
(* Decoder: conversions and the candidate list *)

\* int16_samples.astype(np.float32) / self.max_int16, as the exact rational q / 32767
Int16ToFloat(q) == <<q, max_int16>>

\* float_samples.reshape(-1, channels).flatten() of the converted samples
FloatSamplesFlat(pcm, ch) ==
    Unshaped(Shaped([i \in 1..Len(pcm) |-> Int16ToFloat(pcm[i])], ch), ch)

\* np.abs on an int16 array: the result is an int16 again, so abs(-32768) wraps
AbsInt16(q) == IF q = -32768 THEN -32768 ELSE IF q < 0 THEN -q ELSE q

\* np.max(np.abs(int16_check)) of a non-empty array
PeakAbsInt16(pcm) ==
    CHOOSE m \in { AbsInt16(pcm[i]) : i \in 1..Len(pcm) } :
        \A i \in 1..Len(pcm) : AbsInt16(pcm[i]) <= m

\* faulty variant of GatePasses: the threshold itself passes
GatePasses_AtLeast(pcm) == PeakAbsInt16(pcm) >= 100

\* line 186: "if np.max(np.abs(int16_check)) > 100:  # Not silence"
GatePasses(pcm) == PeakAbsInt16(pcm) > 100

\* faulty variant of EstimatedPacketSize: the estimate is not capped at 400
EstimatedPacketSize_Uncapped(L) == Max(40, L \div 5)

\* line 147: max(40, min(400, len(self.packet_buffer) // 5))
EstimatedPacketSize(L) == Max(40, Min(400, L \div 5))

\* line 156: the common Opus packet sizes
CommonSizes == {60, 80, 100, 120, 150, 180, 200, 250, 300, 350, 400}

\* faulty variant of SequentialFill: the loop stops one candidate late
RECURSIVE SequentialFill_StopsLate(_, _, _)
SequentialFill_StopsLate(cands, size, stop) ==
    IF size >= stop THEN cands
    ELSE LET added == cands \cup {size}
         IN  IF Cardinality(added) > max_candidates THEN added
             ELSE SequentialFill_StopsLate(added, size + 1, stop)

\* lines 162-166: for size in range(1, min(4000, L + 1)): add size when it is new,
\* stop as soon as the set has max_candidates members
RECURSIVE SequentialFill(_, _, _)
SequentialFill(cands, size, stop) ==
    IF size >= stop THEN cands
    ELSE LET added == cands \cup {size}
         IN  IF Cardinality(added) >= max_candidates THEN added
             ELSE SequentialFill(added, size + 1, stop)

\* sorted(packet_size_candidates)
RECURSIVE Sorted(_)
Sorted(S) ==
    IF S = {} THEN <<>>
    ELSE LET m == CHOOSE x \in S : \A y \in S : x <= y
         IN  <<m>> \o Sorted(S \ {m})

\* lines 147-169: the candidate list for a queue of L bytes
CandidateLadder(L) ==
    LET est == EstimatedPacketSize(L)
        first == IF est <= L THEN {est} ELSE {}
        common == { c \in CommonSizes : c <= L }
    IN  Sorted(SequentialFill(first \cup common, 1, Min(4000, L + 1)))

\* what decoder.decode(packet, frame_size) may return: interleaved PCM of at most
\* frame_size samples per channel
PcmResults(ch) == UNION { [1..(k * ch) -> PcmVals] : k \in 1..frame_size }
DecodeResults(ch) == {<<>>} \cup PcmResults(ch)

\* faulty variant of SamplesToWrite: PCM that does not fit entirely is not written
SamplesToWrite_AllOrNothing(flat, o, idx) ==
    IF Len(flat) <= Len(o) - idx THEN Len(flat) ELSE 0

\* lines 131 / 198: samples_to_write = min(len(float_samples_flat), len(out) - output_idx)
SamplesToWrite(flat, o, idx) == Min(Len(flat), Len(o) - idx)

----------------------------------------------------------------------------
(* Decoder: opus_decoder.work *)

\* lines 89-94: the scheduler calls work(input_items, output_items)
DecWorkCall ==
    /\ block = "decoder" /\ pc = "idle"
    /\ \E chunk \in SeqsUpTo(ByteVals, MaxChunk), noutput \in 0..MaxOut :
        /\ in0' = chunk
        /\ nin' = Len(chunk)
        /\ out' = [i \in 1..noutput |-> NoVal]
    /\ before' = Len(packet_buffer)
    /\ pc' = "append"
    /\ event' = "called"
    /\ n_codec_calls' = 0
    /\ n_written' = 0
    /\ excess' = 0
    /\ output_idx' = 0
    /\ packet_size_candidates' = <<>>
    /\ cand_idx' = 0
    /\ ret' = 0
    /\ UNCHANGED <<twin, stream, lifeVars, block, channels, packet_size, packet_buffer, packet,
                   decoded_pcm, raised, encVars>>

\* lines 96-108: append the whole input, evict the oldest, reset output_idx, pick the mode
DecAppend ==
    /\ block = "decoder" /\ pc = "append"
    /\ excess' = Excess(packet_buffer \o in0, max_buffer_size)
    /\ packet_buffer' = DropOldest(packet_buffer \o in0, max_buffer_size)
    /\ in0' = <<>>
    /\ output_idx' = 0
    /\ pc' = IF packet_size > 0 THEN "fixed" ELSE "ladder"
    /\ event' = "appended"
    /\ UNCHANGED <<twin, stream, lifeVars, block, channels, packet_size, out, ret, packet, decoded_pcm, raised,
                   packet_size_candidates, cand_idx, n_codec_calls, n_written,
                   before, nin, encVars>>

\* what the steps after the append leave alone
DecInCall ==
    /\ block = "decoder"
    /\ excess' = 0
    /\ UNCHANGED <<twin, stream, lifeVars, block, channels, packet_size, in0, before, nin, encVars>>

\* line 217: return output_idx
DecReturns ==
    /\ pc' = "idle"
    /\ ret' = output_idx
    /\ packet' = <<>>
    /\ decoded_pcm' = <<>>
    /\ raised' = FALSE
    /\ UNCHANGED <<packet_buffer, out, output_idx, packet_size_candidates, cand_idx,
                   n_codec_calls, n_written>>

\* lines 118-134 / 183-201: convert the PCM and write as much of it as fits
DecWrites ==
    LET flat == FloatSamplesFlat(decoded_pcm, channels)
        samples_to_write == SamplesToWrite(flat, out, output_idx)
    IN  /\ out' = IF samples_to_write > 0
                  THEN WriteAt(out, output_idx, Take(flat, samples_to_write))
                  ELSE out
        /\ output_idx' = IF samples_to_write > 0
                         THEN output_idx + samples_to_write ELSE output_idx

(* fixed-size mode *)

\* faulty variant of DecFixedCond: the loop goes on while any byte is queued
DecFixedCond_AnyBytes == Len(packet_buffer) > 0 /\ output_idx < Len(out)

DecFixedCond == Len(packet_buffer) >= packet_size /\ output_idx < Len(out)

\* faulty variant of DecFixedDecode: the slice handed to decoder.decode is one byte short
DecFixedDecode_ShortSlice ==
    /\ DecInCall /\ pc = "fixed" /\ DecFixedCond
    /\ packet' = Take(packet_buffer, packet_size - 1)
    /\ packet_buffer' = ConsumePrefix(packet_buffer, packet_size)
    /\ \/ raised' = TRUE /\ decoded_pcm' = <<>>
       \/ raised' = FALSE /\ decoded_pcm' \in DecodeResults(channels)
    /\ n_codec_calls' = n_codec_calls + 1
    /\ pc' = "fixed_result"
    /\ event' = "decode_called"
    /\ UNCHANGED <<out, output_idx, ret, packet_size_candidates, cand_idx, n_written>>

\* lines 110-116: take the first packet_size bytes, remove them, call decoder.decode
DecFixedDecode ==
    /\ DecInCall /\ pc = "fixed" /\ DecFixedCond
    /\ packet' = Take(packet_buffer, packet_size)
    /\ packet_buffer' = ConsumePrefix(packet_buffer, packet_size)
    /\ \/ raised' = TRUE /\ decoded_pcm' = <<>>
       \/ raised' = FALSE /\ decoded_pcm' \in DecodeResults(channels)
    /\ n_codec_calls' = n_codec_calls + 1
    /\ pc' = "fixed_result"
    /\ event' = "decode_called"
    /\ UNCHANGED <<out, output_idx, ret, packet_size_candidates, cand_idx, n_written>>

\* what every way out of the fixed-mode loop body leaves alone
DecFixedNext ==
    /\ DecInCall /\ pc = "fixed_result"
    /\ pc' = "fixed"
    /\ packet' = <<>>
    /\ decoded_pcm' = <<>>
    /\ raised' = FALSE
    /\ UNCHANGED <<packet_buffer, ret, packet_size_candidates, cand_idx, n_codec_calls>>

\* lines 118-134: PCM came back: convert and write it
DecFixedWrite ==
    /\ DecFixedNext
    /\ ~raised /\ decoded_pcm # <<>>
    /\ DecWrites
    /\ n_written' = n_written + 1
    /\ event' = "written"

\* line 118: "if decoded_pcm:" is false: nothing is written
DecFixedEmpty ==
    /\ DecFixedNext
    /\ ~raised /\ decoded_pcm = <<>>
    /\ event' = "decode_empty"
    /\ UNCHANGED <<out, output_idx, n_written>>

\* faulty variant of DecFixedFails: the slice is put back and the call gives up
DecFixedFails_Requeue ==
    /\ DecInCall /\ pc = "fixed_result"
    /\ raised
    /\ packet_buffer' = packet \o packet_buffer
    /\ pc' = "idle"
    /\ ret' = output_idx
    /\ packet' = <<>>
    /\ decoded_pcm' = <<>>
    /\ raised' = FALSE
    /\ event' = "decode_failed"
    /\ UNCHANGED <<out, output_idx, packet_size_candidates, cand_idx, n_codec_calls,
                   n_written>>

\* lines 135-137: decoder.decode raised: "continue"
DecFixedFails ==
    /\ DecFixedNext
    /\ raised
    /\ event' = "decode_failed"
    /\ UNCHANGED <<out, output_idx, n_written>>

\* lines 110, 217: the loop condition is false: return
DecFixedReturn ==
    /\ DecInCall /\ pc = "fixed" /\ ~DecFixedCond
    /\ DecReturns
    /\ event' = "loop_ended"

(* variable-size mode *)

\* lines 147-169: build the candidate list from the queue length
DecBuildCandidates ==
    /\ DecInCall /\ pc = "ladder"
    /\ packet_size_candidates' = CandidateLadder(Len(packet_buffer))
    /\ pc' = "while"
    /\ event' = "ladder_built"
    /\ UNCHANGED <<packet_buffer, out, output_idx, ret, packet, decoded_pcm, raised, cand_idx,
                   n_codec_calls, n_written>>

DecVarCond == output_idx < Len(out) /\ Len(packet_buffer) > 0

\* faulty variant of DecVarScan: the scan resumes at the entry accepted last
DecVarScan_Resumes ==
    /\ DecInCall /\ pc = "while" /\ DecVarCond
    /\ cand_idx' = IF cand_idx = 0 THEN 1 ELSE cand_idx
    /\ pc' = "for"
    /\ event' = "scan_started"
    /\ UNCHANGED <<packet_buffer, out, output_idx, ret, packet, decoded_pcm, raised,
                   packet_size_candidates, n_codec_calls, n_written>>

\* lines 171-175: the while condition holds: start a scan at the first candidate
DecVarScan ==
    /\ DecInCall /\ pc = "while" /\ DecVarCond
    /\ cand_idx' = 1
    /\ pc' = "for"
    /\ event' = "scan_started"
    /\ UNCHANGED <<packet_buffer, out, output_idx, ret, packet, decoded_pcm, raised,
                   packet_size_candidates, n_codec_calls, n_written>>

\* lines 171, 217: the while condition is false: return
DecVarReturn ==
    /\ DecInCall /\ pc = "while" /\ ~DecVarCond
    /\ DecReturns
    /\ event' = "loop_ended"

\* lines 176-177: the candidate is longer than the queue: "continue"
DecVarSkip ==
    /\ DecInCall /\ pc = "for" /\ cand_idx <= Len(packet_size_candidates)
    /\ packet_size_candidates[cand_idx] > Len(packet_buffer)
    /\ cand_idx' = cand_idx + 1
    /\ event' = "candidate_skipped"
    /\ UNCHANGED <<packet_buffer, pc, out, output_idx, ret, packet, decoded_pcm, raised,
                   packet_size_candidates, n_codec_calls, n_written>>

\* lines 179-181: decode the first packet_size bytes of the queue, leaving them queued
DecVarDecode ==
    /\ DecInCall /\ pc = "for" /\ cand_idx <= Len(packet_size_candidates)
    /\ ~(packet_size_candidates[cand_idx] > Len(packet_buffer))
    /\ packet' = Take(packet_buffer, packet_size_candidates[cand_idx])
    /\ \/ raised' = TRUE /\ decoded_pcm' = <<>>
       \/ raised' = FALSE /\ decoded_pcm' \in DecodeResults(channels)
    /\ n_codec_calls' = n_codec_calls + 1
    /\ pc' = "gate"
    /\ event' = "decode_called"
    /\ UNCHANGED <<packet_buffer, out, output_idx, ret, packet_size_candidates,
                   cand_idx, n_written>>

\* lines 183-206: the PCM passes the silence check: write it, remove the packet, break
DecVarAccept ==
    /\ DecInCall /\ pc = "gate"
    /\ ~raised /\ decoded_pcm # <<>>
    /\ GatePasses(decoded_pcm)
    /\ DecWrites
    /\ packet_buffer' = ConsumePrefix(packet_buffer, packet_size_candidates[cand_idx])
    /\ n_written' = n_written + 1
    /\ pc' = "while"
    /\ packet' = <<>>
    /\ decoded_pcm' = <<>>
    /\ raised' = FALSE
    /\ event' = "accepted"
    /\ UNCHANGED <<ret, packet_size_candidates, cand_idx, n_codec_calls>>

\* faulty variant of DecVarNextCandidate: the entry after the rejected one is left out
DecVarNextCandidate_LeavesOneOut ==
    /\ DecInCall /\ pc = "gate"
    /\ cand_idx' = cand_idx + 2
    /\ pc' = "for"
    /\ packet' = <<>>
    /\ decoded_pcm' = <<>>
    /\ raised' = FALSE
    /\ UNCHANGED <<packet_buffer, out, output_idx, ret, packet_size_candidates,
                   n_codec_calls, n_written>>

\* what every rejection of a candidate leaves alone: on to the next candidate
DecVarNextCandidate ==
    /\ DecInCall /\ pc = "gate"
    /\ cand_idx' = cand_idx + 1
    /\ pc' = "for"
    /\ packet' = <<>>
    /\ decoded_pcm' = <<>>
    /\ raised' = FALSE
    /\ UNCHANGED <<packet_buffer, out, output_idx, ret, packet_size_candidates,
                   n_codec_calls, n_written>>

\* faulty variant of DecVarSilent: the bytes of the silent candidate are removed
DecVarSilent_Discards ==
    /\ DecInCall /\ pc = "gate"
    /\ ~raised /\ decoded_pcm # <<>>
    /\ ~GatePasses(decoded_pcm)
    /\ packet_buffer' = ConsumePrefix(packet_buffer, packet_size_candidates[cand_idx])
    /\ cand_idx' = cand_idx + 1
    /\ pc' = "for"
    /\ packet' = <<>>
    /\ decoded_pcm' = <<>>
    /\ raised' = FALSE
    /\ event' = "rejected_silent"
    /\ UNCHANGED <<out, output_idx, ret, packet_size_candidates, n_codec_calls,
                   n_written>>

\* line 186: the peak is not above 100: the candidate is taken for silence
DecVarSilent ==
    /\ DecVarNextCandidate
    /\ ~raised /\ decoded_pcm # <<>>
    /\ ~GatePasses(decoded_pcm)
    /\ event' = "rejected_silent"

\* line 183: "if decoded_pcm:" is false
DecVarEmpty ==
    /\ DecVarNextCandidate
    /\ ~raised /\ decoded_pcm = <<>>
    /\ event' = "rejected_empty"

\* faulty variant of DecVarFails: the failed candidate's bytes are discarded, as in fixed mode
DecVarFails_Discards ==
    /\ DecInCall /\ pc = "gate"
    /\ raised
    /\ packet_buffer' = ConsumePrefix(packet_buffer, packet_size_candidates[cand_idx])
    /\ cand_idx' = cand_idx + 1
    /\ pc' = "for"
    /\ packet' = <<>>
    /\ decoded_pcm' = <<>>
    /\ raised' = FALSE
    /\ event' = "rejected_failed"
    /\ UNCHANGED <<out, output_idx, ret, packet_size_candidates, n_codec_calls,
                   n_written>>

\* faulty variant of DecVarFails: the exception is not caught and leaves work()
DecVarFails_Propagates ==
    /\ DecInCall /\ pc = "gate"
    /\ raised
    /\ pc' = "propagated"
    /\ event' = "rejected_failed"
    /\ UNCHANGED <<packet_buffer, out, output_idx, ret, packet, decoded_pcm, raised,
                   packet_size_candidates, cand_idx, n_codec_calls, n_written>>

\* lines 207-209: decoder.decode raised: "continue"
DecVarFails ==
    /\ DecVarNextCandidate
    /\ raised
    /\ event' = "rejected_failed"

\* lines 211-213, 217: no candidate of the scan was accepted: break, return
DecVarNoMatch ==
    /\ DecInCall /\ pc = "for" /\ cand_idx > Len(packet_size_candidates)
    /\ DecReturns
    /\ event' = "no_match"

----------------------------------------------------------------------------
(* Construction and finalization of adapter objects *)

\* str.lower() on the letters; a string is the sequence of its characters
UpperCase == <<"A", "B", "C", "D", "E", "F", "G", "H", "I", "J", "K", "L", "M", "N",
               "O", "P", "Q", "R", "S", "T", "U", "V", "W", "X", "Y", "Z">>
LowerCase == <<"a", "b", "c", "d", "e", "f", "g", "h", "i", "j", "k", "l", "m", "n",
               "o", "p", "q", "r", "s", "t", "u", "v", "w", "x", "y", "z">>
LowerChar(c) ==
    IF \E k \in 1..Len(UpperCase) : UpperCase[k] = c
    THEN LowerCase[CHOOSE k \in 1..Len(UpperCase) : UpperCase[k] = c]
    ELSE c

\* faulty variant of Lower: the string is looked up as given
Lower_AsGiven(str) == str

Lower(str) == [k \in 1..Len(str) |-> LowerChar(str[k])]

\* app_map.get(key, opuslib.APPLICATION_AUDIO)
app_map(key) ==
    CASE key = <<"v", "o", "i", "p">> -> "APPLICATION_VOIP"
      [] key = <<"a", "u", "d", "i", "o">> -> "APPLICATION_AUDIO"
      [] key = <<"l", "o", "w", "d", "e", "l", "a", "y">> -> "APPLICATION_RESTRICTED_LOWDELAY"
      [] OTHER -> "APPLICATION_AUDIO"

\* self.application (line 45)
Application(application) == app_map(Lower(application))

\* the application strings constructors are called with
ApplicationArgs ==
    { <<"v", "o", "i", "p">>, <<"V", "O", "I", "P">>, <<"V", "o", "I", "p">>,
      <<"v", "o", "i", "P">>, <<"v", "o", "i", "p", " ">>, <<"v", "o", "i">>,
      <<"a", "u", "d", "i", "o">>, <<"A", "U", "D", "I", "O">>,
      <<"A", "u", "d", "i", "o">>,
      <<"l", "o", "w", "d", "e", "l", "a", "y">>,
      <<"L", "O", "W", "D", "E", "L", "A", "Y">>,
      <<"L", "o", "w", "D", "e", "l", "a", "y">>,
      <<"l", "o", "w", "_", "d", "e", "l", "a", "y">>,
      <<"r", "e", "s", "t", "r", "i", "c", "t", "e", "d", "_", "l", "o", "w", "d", "e",
        "l", "a", "y">>,
      <<"m", "u", "s", "i", "c">>, <<"2", "0", "4", "8">>, <<>> }

\* an adapter object as a completed constructor leaves it: registered in _instances,
\* holding its engine, one reference in the caller's hands
Constructed(kind, app) ==
    [kind |-> kind, state |-> "live", application |-> app, codec |-> "engine",
     refs |-> 1, gc_ran |-> FALSE, arg |-> <<>>]

\* no constructor is running
NoneUnderConstruction == \A i \in 1..Len(objects) : objects[i].state # "mapped"
UnderConstruction(i) == i \in 1..Len(objects) /\ objects[i].state = "mapped"

Registered(i) == \E k \in 1..Len(instances) : instances[k] = i

\* list.remove(x): the first occurrence is taken out; ValueError (caught) if none
ListRemove(list, x) ==
    IF \E k \in 1..Len(list) : list[k] = x
    THEN LET k == CHOOSE j \in 1..Len(list) :
                     list[j] = x /\ \A h \in 1..(j - 1) : list[h] # x
         IN  [h \in 1..(Len(list) - 1) |-> IF h < k THEN list[h] ELSE list[h + 1]]
    ELSE list

\* the interpreter can reach the object: the caller holds a reference, or the
\* class-level list does (the references the object holds to itself, _self_ref and
\* _refs, do not keep it from the cycle collector)
Reachable(i) == objects[i].refs > 0 \/ Registered(i)

\* the constructor is entered and runs up to the creation of the engine
\* (opus_encoder.__init__ lines 33-45, opus_decoder.__init__ lines 28-37)
ConstructCall ==
    /\ pc = "idle"
    /\ Len(objects) < MaxInstances
    /\ NoneUnderConstruction
    /\ \/ \E application \in ApplicationArgs :
             objects' = Append(objects,
                 [kind |-> "encoder", state |-> "mapped",
                  application |-> Application(application), codec |-> "unset",
                  refs |-> 0, gc_ran |-> FALSE, arg |-> application])
       \/ objects' = Append(objects,
                 [kind |-> "decoder", state |-> "mapped", application |-> "none",
                  codec |-> "unset", refs |-> 0, gc_ran |-> FALSE, arg |-> <<>>])
    /\ UNCHANGED <<instances, workVars>>

\* faulty variant of ConstructFails: the object was put on _instances before the engine
\* was created
ConstructFails_Registered ==
    /\ \E i \in 1..Len(objects) :
          /\ UnderConstruction(i)
          /\ \E c \in (IF objects[i].kind = "encoder" THEN {"unset", "engine"}
                       ELSE {"unset"}) :
                objects' = [objects EXCEPT ![i].state = "failed", ![i].codec = c,
                                           ![i].arg = <<>>]
          /\ instances' = Append(instances, i)
    /\ UNCHANGED workVars

\* the engine is created and the constructor completes (encoder lines 49-92, decoder
\* lines 41-83): the object is appended to _instances and returned to the caller
ConstructSucceeds ==
    /\ \E i \in 1..Len(objects) :
          /\ UnderConstruction(i)
          /\ objects' = [objects EXCEPT
                 ![i] = Constructed(objects[i].kind, objects[i].application)]
          /\ instances' = Append(instances, i)
    /\ UNCHANGED workVars

\* opuslib.Encoder / opuslib.Decoder raises (self.encoder is never assigned), or the
\* bitrate setter raises (self.encoder is assigned; encoder only): the except clause
\* raises RuntimeError out of the constructor (encoder lines 49-56, decoder lines
\* 41-47); nothing after it runs, the caller receives no object
ConstructFails ==
    /\ \E i \in 1..Len(objects) :
          /\ UnderConstruction(i)
          /\ \E c \in (IF objects[i].kind = "encoder" THEN {"unset", "engine"}
                       ELSE {"unset"}) :
                objects' = [objects EXCEPT ![i].state = "failed", ![i].codec = c,
                                           ![i].arg = <<>>]
    /\ UNCHANGED <<instances, workVars>>

\* the caller drops its reference to an object (del, rebinding, end of scope)
DropReference ==
    /\ \E i \in 1..Len(objects) :
          /\ objects[i].state = "live" /\ objects[i].refs > 0
          /\ objects' = [objects EXCEPT ![i].refs = objects[i].refs - 1]
    /\ UNCHANGED <<instances, workVars>>

\* __del__ of object i (encoder lines 169-181, decoder lines 219-231)
Finalized(o) ==
    [o EXCEPT !.state = "finalized",
              !.codec = IF o.codec = "unset" THEN "unset" ELSE "None"]

\* a garbage collection runs: every object the interpreter cannot reach any more is
\* finalized by its __del__, which takes it off _instances and clears the engine
\* reference; the others are left as they are
Collect ==
    /\ NoneUnderConstruction
    /\ \E i \in 1..Len(objects) :
          objects[i].state \in {"live", "failed"} /\ objects[i].refs = 0
            /\ ~objects[i].gc_ran
    /\ LET dead == {i \in 1..Len(objects) :
                      objects[i].state \in {"live", "failed"} /\ ~Reachable(i)}
           RECURSIVE removeAll(_, _)
           removeAll(list, todo) ==
               IF todo = {} THEN list
               ELSE LET i == CHOOSE x \in todo : TRUE
                    IN  removeAll(ListRemove(list, i), todo \ {i})
       IN  /\ instances' = removeAll(instances, dead)
           /\ objects' = [i \in 1..Len(objects) |->
                            IF i \in dead THEN Finalized(objects[i])
                            ELSE IF objects[i].refs = 0 /\ objects[i].state = "live"
                                 THEN [objects[i] EXCEPT !.gc_ran = TRUE]
                                 ELSE objects[i]]
    /\ UNCHANGED workVars

----------------------------------------------------------------------------
(* Construction and the specifications *)

InitCommon ==
    /\ pc = "idle"
    /\ in0 = <<>> /\ out = <<>> /\ output_idx = 0 /\ excess = 0 /\ ret = 0
    /\ sample_buffer = <<>> /\ packet_buffer = <<>>
    /\ frame_samples = <<>> /\ int16_samples = <<>>
    /\ packet = <<>> /\ decoded_pcm = <<>> /\ raised = FALSE
    /\ packet_size_candidates = <<>> /\ cand_idx = 0
    /\ event = "constructed"
    /\ n_codec_calls = 0 /\ n_written = 0 /\ pushed = <<>> /\ pending = <<>>
    /\ at_extract = <<>>
    /\ before = 0 /\ nin = 0

\* opus_encoder.__init__ (lines 35-65)
InitEnc ==
    /\ block = "encoder"
    /\ channels \in {1, 2}
    /\ packet_size = 0
    /\ InitCommon
    /\ twin = <<>>
    /\ stream = <<>>
    /\ instances = <<1>>
    /\ objects = <<Constructed("encoder", "APPLICATION_AUDIO")>>

NextEnc ==
    \/ EncWorkCall
    \/ EncAppend
    \/ EncExtract
    \/ EncWritePacket
    \/ EncPushBack
    \/ EncEncodeFails
    \/ EncReturn

SpecEnc == InitEnc /\ [][NextEnc]_vars

\* opus_decoder.__init__ (lines 35-59)
InitDec ==
    /\ block = "decoder"
    /\ channels \in {1, 2}
    /\ packet_size \in 0..MaxPacketSize
    /\ InitCommon
    /\ twin = <<>>
    /\ stream = <<>>
    /\ instances = <<1>>
    /\ objects = <<Constructed("decoder", "none")>>

NextDec ==
    \/ DecWorkCall
    \/ DecAppend
    \/ DecFixedDecode
    \/ DecFixedWrite
    \/ DecFixedEmpty
    \/ DecFixedFails
    \/ DecFixedReturn
    \/ DecBuildCandidates
    \/ DecVarScan
    \/ DecVarReturn
    \/ DecVarSkip
    \/ DecVarDecode
    \/ DecVarAccept
    \/ DecVarSilent
    \/ DecVarEmpty
    \/ DecVarFails
    \/ DecVarNoMatch

SpecDec == InitDec /\ [][NextDec]_vars

\* either adapter
Init == InitEnc \/ InitDec
Next == NextEnc \/ NextDec
Spec == Init /\ [][Next]_vars

\* a step of the body of work(): once the scheduler has called work(), the interpreter
\* runs the body on to its return statement; nothing obliges the scheduler to call again
WorkBody == pc # "idle" /\ Next
FairSpec == Spec /\ WF_vars(WorkBody)

\* The candidate list on its own: a variable-size decoder at line 147 of its first call,
\* the append step having left a queue of any length up to MaxLadderQueue (the call
\* delivered that many bytes to the empty queue, with an empty output region); the one
\* step is the construction of the list, lines 147-169.
InitLadder ==
    /\ block = "decoder" /\ channels = 1 /\ packet_size = 0
    /\ pc = "ladder" /\ event = "appended"
    /\ \E L \in 0..MaxLadderQueue :
          /\ packet_buffer = [i \in 1..L |-> 0]
          /\ nin = L
    /\ before = 0
    /\ in0 = <<>> /\ out = <<>> /\ output_idx = 0 /\ excess = 0 /\ ret = 0
    /\ sample_buffer = <<>> /\ frame_samples = <<>> /\ int16_samples = <<>>
    /\ packet = <<>> /\ decoded_pcm = <<>> /\ raised = FALSE
    /\ packet_size_candidates = <<>> /\ cand_idx = 0
    /\ n_codec_calls = 0 /\ n_written = 0 /\ pushed = <<>> /\ pending = <<>>
    /\ at_extract = <<>>
    /\ twin = <<>>
    /\ stream = <<>>
    /\ instances = <<1>>
    /\ objects = <<Constructed("decoder", "none")>>

NextLadder == DecBuildCandidates

SpecLadder == InitLadder /\ [][NextLadder]_vars

\* The candidate list and the scan over it: as above, and for the queues of up to
\* MaxScanQueue bytes the call has room for one output sample, so that the list is
\* scanned until a candidate is accepted or all are rejected (lines 171-213).
InitScan ==
    /\ block = "decoder" /\ channels = 1 /\ packet_size = 0
    /\ pc = "ladder" /\ event = "appended"
    /\ \E L \in 0..MaxLadderQueue, noutput \in 0..1 :
          /\ noutput = 1 => L <= MaxScanQueue
          /\ packet_buffer = [i \in 1..L |-> 0]
          /\ nin = L
          /\ out = [i \in 1..noutput |-> NoVal]
    /\ before = 0
    /\ in0 = <<>> /\ output_idx = 0 /\ excess = 0 /\ ret = 0
    /\ sample_buffer = <<>> /\ frame_samples = <<>> /\ int16_samples = <<>>
    /\ packet = <<>> /\ decoded_pcm = <<>> /\ raised = FALSE
    /\ packet_size_candidates = <<>> /\ cand_idx = 0
    /\ n_codec_calls = 0 /\ n_written = 0 /\ pushed = <<>> /\ pending = <<>>
    /\ at_extract = <<>>
    /\ twin = <<>>
    /\ stream = <<>>
    /\ instances = <<1>>
    /\ objects = <<Constructed("decoder", "none")>>

\* (with room for one sample a call accepts at most one packet, so no entry of the
\* list is ever longer than the queue it is tried on)
NextScan ==
    \/ DecBuildCandidates
    \/ DecVarScan
    \/ DecVarReturn
    \/ DecVarDecode
    \/ DecVarAccept
    \/ DecVarSilent
    \/ DecVarEmpty
    \/ DecVarFails
    \/ DecVarNoMatch

SpecScan == InitScan /\ [][NextScan]_vars

\* Two encoder instances of the same configuration, each constructed afresh and given
\* the same first call.  twin.in0 and twin.noutput are what both calls are given.  The
\* engine is a deterministic function of its construction parameters and of the frames
\* it has been handed: twin.answers[i] is its answer to the i-th encode of a fresh
\* instance when the frames handed so far are the first i frames of twin.in0; for any
\* other sequence of frames its answer is not known.  The first instance runs its
\* call, its results are kept in twin.first, then the second instance is constructed
\* and runs its call.
EncodeRaises == <<-1>>
EngineAnswers == Packets \cup {EncodeRaises}

\* the i-th whole frame of twin.in0 as encoder.encode receives it
TwinFrame(i) ==
    QuantizeFrame(Shaped(SubSeq(twin.in0, (i - 1) * frame_size_samples + 1,
                                i * frame_size_samples), channels), channels)

\* what encoder.encode may answer to the encode in progress
TwinAnswers ==
    IF /\ n_codec_calls \in 1..Len(twin.answers)
       /\ int16_samples = TwinFrame(n_codec_calls)
    THEN {twin.answers[n_codec_calls]}
    ELSE EngineAnswers

InitTwin ==
    /\ block = "encoder"
    /\ channels \in {1, 2}
    /\ packet_size = 0
    /\ InitCommon
    /\ stream = <<>>
    /\ instances = <<1>>
    /\ objects = <<Constructed("encoder", "APPLICATION_AUDIO")>>
    /\ \E chunk \in SeqsUpTo(SampleVals, MaxChunk), noutput \in 0..MaxOut :
          \E answers \in [1..(Len(chunk) \div frame_size_samples) -> EngineAnswers] :
             twin = [in0 |-> chunk, noutput |-> noutput, answers |-> answers,
                     first |-> <<>>]

\* the first call of the instance in hand
TwinWorkCall ==
    /\ event = "constructed"
    /\ EncWorkCall
    /\ in0' = twin.in0
    /\ Len(out') = twin.noutput

TwinWritePacket ==
    /\ EncWritePacket
    /\ \E a \in TwinAnswers \ {EncodeRaises} :
          /\ output_idx' = output_idx + Len(a)
          /\ out' = WriteAt(out, output_idx, a)

TwinPushBack ==
    /\ EncPushBack
    /\ pushed'[2] \in TwinAnswers

TwinEncodeFails ==
    /\ EncEncodeFails
    /\ EncodeRaises \in TwinAnswers

\* faulty variant of TwinConstruct: sample_buffer is one list shared by the instances
TwinConstruct_SharedQueue ==
    /\ pc = "idle" /\ event # "constructed"
    /\ twin.first = <<>>
    /\ twin' = [twin EXCEPT !.first = <<ret, out, sample_buffer>>]
    /\ pc' = "idle"
    /\ in0' = <<>> /\ out' = <<>> /\ output_idx' = 0 /\ excess' = 0 /\ ret' = 0
    /\ frame_samples' = <<>> /\ int16_samples' = <<>>
    /\ event' = "constructed"
    /\ n_codec_calls' = 0 /\ n_written' = 0 /\ pushed' = <<>> /\ pending' = <<>>
    /\ at_extract' = <<>>
    /\ before' = 0 /\ nin' = 0
    /\ instances' = Append(instances, Len(objects) + 1)
    /\ objects' = Append(objects, Constructed("encoder", "APPLICATION_AUDIO"))
    /\ UNCHANGED <<stream, block, channels, packet_size, sample_buffer, decVars>>

\* the first instance has returned from its call: keep what it returned, wrote and
\* left queued, and construct the second instance (opus_encoder.__init__, lines 35-68:
\* its own engine, an empty sample_buffer)
TwinConstruct ==
    /\ pc = "idle" /\ event # "constructed"
    /\ twin.first = <<>>
    /\ twin' = [twin EXCEPT !.first = <<ret, out, sample_buffer>>]
    /\ pc' = "idle"
    /\ sample_buffer' = <<>>
    /\ in0' = <<>> /\ out' = <<>> /\ output_idx' = 0 /\ excess' = 0 /\ ret' = 0
    /\ frame_samples' = <<>> /\ int16_samples' = <<>>
    /\ event' = "constructed"
    /\ n_codec_calls' = 0 /\ n_written' = 0 /\ pushed' = <<>> /\ pending' = <<>>
    /\ at_extract' = <<>>
    /\ before' = 0 /\ nin' = 0
    /\ instances' = Append(instances, Len(objects) + 1)
    /\ objects' = Append(objects, Constructed("encoder", "APPLICATION_AUDIO"))
    /\ UNCHANGED <<stream, block, channels, packet_size, decVars>>

NextTwin ==
    \/ TwinWorkCall
    \/ EncAppend
    \/ EncExtract
    \/ TwinWritePacket
    \/ TwinPushBack
    \/ TwinEncodeFails
    \/ EncReturn
    \/ TwinConstruct

SpecTwin == InitTwin /\ [][NextTwin]_vars

\* Round trip: an encoder instance encodes the first frame of twin.in0 in its first
\* call and writes the packet; a decoder of the same channels, in fixed-size mode with
\* packet_size the length of that packet, is then constructed and given the written
\* bytes as its first input, with room for a whole frame in the output region.

\* the bytes the encoder wrote to its output region
EmittedBytes == [i \in 1..twin.first[1] |-> twin.first[2][i][1]]

\* the encoder has returned having written exactly one packet, which is not empty: keep
\* its results and construct the decoder (opus_decoder.__init__, lines 35-59)
TripHandOver ==
    /\ block = "encoder" /\ pc = "idle" /\ event # "constructed"
    /\ twin.first = <<>>
    /\ n_written = 1 /\ ret >= 1
    /\ twin' = [twin EXCEPT !.first = <<ret, out, sample_buffer>>]
    /\ block' = "decoder"
    /\ packet_size' = ret
    /\ pc' = "idle"
    /\ packet_buffer' = <<>>
    /\ in0' = <<>> /\ out' = <<>> /\ output_idx' = 0 /\ excess' = 0 /\ ret' = 0
    /\ packet' = <<>> /\ decoded_pcm' = <<>> /\ raised' = FALSE
    /\ packet_size_candidates' = <<>> /\ cand_idx' = 0
    /\ event' = "constructed"
    /\ n_codec_calls' = 0 /\ n_written' = 0
    /\ before' = 0 /\ nin' = 0
    /\ instances' = Append(instances, Len(objects) + 1)
    /\ objects' = Append(objects, Constructed("decoder", "none"))
    /\ UNCHANGED <<stream, channels, encVars>>

\* the first call of the decoder: the emitted bytes, room for a frame
TripWorkCall ==
    /\ event = "constructed"
    /\ DecWorkCall
    /\ in0' = EmittedBytes
    /\ Len(out') >= frame_size_samples

NextTrip ==
    \/ TwinWorkCall
    \/ EncAppend
    \/ EncExtract
    \/ TwinWritePacket
    \/ TwinPushBack
    \/ TwinEncodeFails
    \/ EncReturn
    \/ TripHandOver
    \/ TripWorkCall
    \/ DecAppend
    \/ DecFixedDecode
    \/ DecFixedWrite
    \/ DecFixedEmpty
    \/ DecFixedFails
    \/ DecFixedReturn

SpecTrip == InitTwin /\ [][NextTrip]_vars

\* The life of adapter objects: a caller constructs encoders and decoders one after the
\* other, drops its references, and garbage collections run; no work() call is made.
InitLife ==
    /\ block = "encoder" /\ channels = 1 /\ packet_size = 0
    /\ InitCommon
    /\ twin = <<>>
    /\ stream = <<>>
    /\ instances = <<>>
    /\ objects = <<>>

NextLife ==
    \/ ConstructCall
    \/ ConstructSucceeds
    \/ ConstructFails
    \/ DropReference
    \/ Collect

SpecLife == InitLife /\ [][NextLife]_vars

\* The conversions on their own: an encoder about to quantize a one-sample frame
\* (line 132) for every sample n/d in [-1, 1], and a decoder about to convert a
\* one-value PCM result (lines 120-121) for every int16 value, whose output is then
\* given to the encoder's quantization.
UnitSamples == { <<n, d>> : n \in -MaxDenominator..MaxDenominator,
                            d \in 1..MaxDenominator } \cap
               { sd \in (-MaxDenominator..MaxDenominator) \X (1..MaxDenominator) :
                   -sd[2] <= sd[1] /\ sd[1] <= sd[2] }
Int16 == -32768..32767

InitQuant ==
    /\ channels = 1 /\ packet_size = 0
    /\ in0 = <<>> /\ output_idx = 0 /\ excess = 0 /\ ret = 0
    /\ sample_buffer = <<>> /\ packet_buffer = <<>>
    /\ int16_samples = <<>>
    /\ packet = <<>> /\ raised = FALSE
    /\ packet_size_candidates = <<>> /\ cand_idx = 0
    /\ n_codec_calls = 0 /\ n_written = 0 /\ pushed = <<>> /\ pending = <<>>
    /\ at_extract = <<>>
    /\ before = 0 /\ nin = 0
    /\ twin = <<>>
    /\ stream = <<>>
    /\ instances = <<1>>
    /\ \/ /\ block = "encoder" /\ pc = "quantize" /\ event = "extracted"
          /\ frame_samples \in { <<sd>> : sd \in UnitSamples }
          /\ decoded_pcm = <<>> /\ out = <<>>
          /\ objects = <<Constructed("encoder", "APPLICATION_AUDIO")>>
       \/ /\ block = "decoder" /\ pc = "convert" /\ event = "decode_called"
          /\ decoded_pcm \in { <<q>> : q \in Int16 }
          /\ frame_samples = <<>> /\ out = <<NoVal>>
          /\ objects = <<Constructed("decoder", "none")>>

quantVars == <<twin, stream, lifeVars, block, channels, packet_size, sample_buffer,
               packet_buffer, in0, output_idx, excess, ret, packet, raised,
               packet_size_candidates, cand_idx, n_codec_calls, n_written, pushed,
               pending, at_extract, before, nin>>

\* encoder line 132
QuantEncode ==
    /\ block = "encoder" /\ pc = "quantize"
    /\ int16_samples' = QuantizeFrame(frame_samples, channels)
    /\ pc' = "quantized" /\ event' = "quantized"
    /\ UNCHANGED <<frame_samples, decoded_pcm, out, quantVars>>

\* decoder lines 120-133
QuantDecode ==
    /\ block = "decoder" /\ pc = "convert"
    /\ out' = WriteAt(out, 0, FloatSamplesFlat(decoded_pcm, channels))
    /\ pc' = "converted" /\ event' = "written"
    /\ UNCHANGED <<frame_samples, int16_samples, decoded_pcm, quantVars>>

\* the decoder's output sample as an encoder's frame: encoder line 132
QuantAgain ==
    /\ block = "decoder" /\ pc = "converted"
    /\ frame_samples' = <<out[1][1]>>
    /\ int16_samples' = QuantizeFrame(frame_samples', channels)
    /\ pc' = "requantized" /\ event' = "quantized"
    /\ UNCHANGED <<decoded_pcm, out, quantVars>>

NextQuant ==
    \/ QuantEncode
    \/ QuantDecode
    \/ QuantAgain

SpecQuant == InitQuant /\ [][NextQuant]_vars

\* The encoder on a stream whose samples are told apart: the k-th sample ever delivered
\* has the value k / MaxStream.  stream.received counts the samples delivered so far,
\* stream.written is the position of the last sample of the last frame whose packet
\* was written (0 if none).
StreamSample(k) == <<k, MaxStream>>
StreamPosition(s) == s[1]

InitStream ==
    /\ block = "encoder"
    /\ channels \in {1, 2}
    /\ packet_size = 0
    /\ InitCommon
    /\ twin = <<>>
    /\ stream = [received |-> 0, written |-> 0]
    /\ instances = <<1>>
    /\ objects = <<Constructed("encoder", "APPLICATION_AUDIO")>>

\* lines 98-105: the scheduler calls work() with the next samples of the stream
StreamWorkCall ==
    /\ block = "encoder" /\ pc = "idle"
    /\ \E n \in 0..MaxChunk, noutput \in 0..MaxOut :
        /\ stream.received + n <= MaxStream
        /\ in0' = [i \in 1..n |-> StreamSample(stream.received + i)]
        /\ nin' = n
        /\ out' = [i \in 1..noutput |-> NoVal]
        /\ stream' = [stream EXCEPT !.received = stream.received + n]
    /\ before' = Len(sample_buffer)
    /\ pc' = "append"
    /\ event' = "called"
    /\ n_codec_calls' = 0
    /\ n_written' = 0
    /\ excess' = 0
    /\ output_idx' = 0
    /\ pending' = pushed
    /\ pushed' = <<>>
    /\ at_extract' = <<>>
    /\ ret' = 0
    /\ UNCHANGED <<twin, lifeVars, block, channels, packet_size, sample_buffer,
                   frame_samples, int16_samples, decVars>>

\* lines 136-142: the packet fits: write it and go round the loop again
StreamWritePacket ==
    /\ block = "encoder" /\ pc = "encode"
    /\ \E encoded_data \in Packets :
        /\ Fits(encoded_data, out, output_idx)
        /\ out' = WriteAt(out, output_idx, encoded_data)
        /\ output_idx' = output_idx + Len(encoded_data)
    /\ LET frame == Unshaped(frame_samples, channels)
       IN  stream' = [stream EXCEPT !.written = StreamPosition(frame[Len(frame)])]
    /\ frame_samples' = <<>>
    /\ int16_samples' = <<>>
    /\ pending' = <<>>
    /\ n_written' = n_written + 1
    /\ pc' = "loop"
    /\ event' = "written"
    /\ at_extract' = <<>>
    /\ UNCHANGED <<twin, lifeVars, block, channels, packet_size, in0, excess,
                   n_codec_calls, before, nin, decVars, sample_buffer, ret, pushed>>

NextStream ==
    \/ StreamWorkCall
    \/ EncAppend
    \/ EncExtract
    \/ StreamWritePacket
    \/ EncPushBack
    \/ EncEncodeFails
    \/ EncReturn

SpecStream == InitStream /\ [][NextStream]_vars

\* The 2-channel encoder on such a stream when every chunk delivered holds whole
\* sample pairs (len(in0) is a multiple of channels).
InitChannels == InitStream /\ channels = 2

ChannelsWorkCall == StreamWorkCall /\ nin' % channels = 0

NextChannels ==
    \/ ChannelsWorkCall
    \/ EncAppend
    \/ EncExtract
    \/ StreamWritePacket
    \/ EncPushBack
    \/ EncEncodeFails
    \/ EncReturn

SpecChannels == InitChannels /\ [][NextChannels]_vars

\* The fixed-size decoder on a stream whose bytes are told apart: the byte at stream
\* position k (from 0) has the value k.  stream.received counts the bytes delivered so
\* far, stream.evicted the bytes removed by the eviction of lines 100-103 so far,
\* stream.attempts the decode attempts made so far.
InitAlign ==
    /\ block = "decoder"
    /\ channels = 1
    /\ packet_size \in 1..MaxPacketSize
    /\ InitCommon
    /\ twin = <<>>
    /\ stream = [received |-> 0, evicted |-> 0, attempts |-> 0]
    /\ instances = <<1>>
    /\ objects = <<Constructed("decoder", "none")>>

\* lines 89-94: the scheduler calls work() with the next bytes of the stream
AlignWorkCall ==
    /\ block = "decoder" /\ pc = "idle"
    /\ \E n \in 0..MaxChunk, noutput \in 0..MaxOut :
        /\ stream.received + n <= MaxStream
        /\ in0' = [i \in 1..n |-> stream.received + i - 1]
        /\ nin' = n
        /\ out' = [i \in 1..noutput |-> NoVal]
        /\ stream' = [stream EXCEPT !.received = stream.received + n]
    /\ before' = Len(packet_buffer)
    /\ pc' = "append"
    /\ event' = "called"
    /\ n_codec_calls' = 0
    /\ n_written' = 0
    /\ excess' = 0
    /\ output_idx' = 0
    /\ packet_size_candidates' = <<>>
    /\ cand_idx' = 0
    /\ ret' = 0
    /\ UNCHANGED <<twin, lifeVars, block, channels, packet_size, packet_buffer, packet,
                   decoded_pcm, raised, encVars>>

\* lines 96-108: append the whole input, evict the oldest, reset output_idx
AlignAppend ==
    /\ block = "decoder" /\ pc = "append"
    /\ excess' = Excess(packet_buffer \o in0, max_buffer_size)
    /\ packet_buffer' = DropOldest(packet_buffer \o in0, max_buffer_size)
    /\ stream' = [stream EXCEPT !.evicted = stream.evicted + excess']
    /\ in0' = <<>>
    /\ output_idx' = 0
    /\ pc' = "fixed"
    /\ event' = "appended"
    /\ UNCHANGED <<twin, lifeVars, block, channels, packet_size, out, ret, packet,
                   decoded_pcm, raised, packet_size_candidates, cand_idx,
                   n_codec_calls, n_written, before, nin, encVars>>

\* lines 110-116: take the first packet_size bytes, remove them, call decode
AlignFixedDecode ==
    /\ block = "decoder" /\ pc = "fixed" /\ DecFixedCond
    /\ packet' = Take(packet_buffer, packet_size)
    /\ packet_buffer' = ConsumePrefix(packet_buffer, packet_size)
    /\ stream' = [stream EXCEPT !.attempts = stream.attempts + 1]
    /\ \/ raised' = TRUE /\ decoded_pcm' = <<>>
       \/ raised' = FALSE /\ decoded_pcm' \in DecodeResults(channels)
    /\ n_codec_calls' = n_codec_calls + 1
    /\ pc' = "fixed_result"
    /\ event' = "decode_called"
    /\ excess' = 0
    /\ UNCHANGED <<twin, lifeVars, block, channels, packet_size, in0, before, nin,
                   encVars, out, output_idx, ret, packet_size_candidates, cand_idx,
                   n_written>>

NextAlign ==
    \/ AlignWorkCall
    \/ AlignAppend
    \/ AlignFixedDecode
    \/ DecFixedWrite
    \/ DecFixedEmpty
    \/ DecFixedFails
    \/ DecFixedReturn

SpecAlign == InitAlign /\ [][NextAlign]_vars


----------------------------------------------------------------------------
(* Properties *)

\* the last n elements of s, for 0 <= n <= Len(s)
LastN(s, n) == SubSeq(s, Len(s) - n + 1, Len(s))

\* the positions of out the current call has written
WrittenPositions == { i \in 1..Len(out) : out[i] # NoVal }

\* the items at positions 1..n of out
WrittenItems(o, n) == [i \in 1..n |-> o[i][1]]

\* the peak absolute amplitude of PCM samples, over the integers
RECURSIVE TruePeak(_)
TruePeak(pcm) ==
    IF pcm = <<>> THEN 0
    ELSE LET h == IF Head(pcm) < 0 THEN -Head(pcm) ELSE Head(pcm)
             t == TruePeak(Tail(pcm))
         IN  IF h >= t THEN h ELSE t

\* C1: when a call of opus_encoder.work has returned, sample_buffer holds at most
\* sample_rate * channels * 10 samples (here max_buffer_samples), whatever the input
\* chunks, output capacities, encode results and push-backs were.
C1_EncoderQueueBound ==
    (block = "encoder" /\ pc = "idle") => Len(sample_buffer) <= max_buffer_samples

\* a call that overflowed the queue and pushed a frame back returns with a full queue
C1_Witness ==
    /\ block = "encoder" /\ pc = "idle" /\ event = "pushed_back"
    /\ before + nin > max_buffer_samples
    /\ Len(sample_buffer) = max_buffer_samples

\* C2: when a call of opus_decoder.work has returned, in fixed-size and in variable-size
\* mode, packet_buffer holds at most max_buffer_size bytes.
C2_DecoderQueueBound ==
    (block = "decoder" /\ pc = "idle") => Len(packet_buffer) <= max_buffer_size

\* a variable-mode call that overflowed the queue and matched nothing returns with a
\* full queue
C2_Witness ==
    /\ block = "decoder" /\ pc = "idle" /\ packet_size = 0 /\ event = "no_match"
    /\ before + nin > max_buffer_size
    /\ Len(packet_buffer) = max_buffer_size

\* C3: in both adapters the append step leaves the queue equal to the last
\* min(capacity, |old queue| + |input|) elements of the old queue followed by the input
\* chunk, in the same order.
C3_FifoEviction ==
    [][ (pc = "append" /\ pc' # "append") =>
            /\ block = "encoder" =>
                 sample_buffer' =
                    LastN(sample_buffer \o in0,
                          Min(max_buffer_samples, Len(sample_buffer) + Len(in0)))
            /\ block = "decoder" =>
                 packet_buffer' =
                    LastN(packet_buffer \o in0,
                          Min(max_buffer_size, Len(packet_buffer) + Len(in0))) ]_vars

\* an append step that evicted old elements
C3_Witness ==
    /\ event = "appended" /\ excess > 0 /\ before > 0
    /\ \/ block = "encoder" /\ Len(sample_buffer) = max_buffer_samples
       \/ block = "decoder" /\ Len(packet_buffer) = max_buffer_size

\* C4: in either adapter the count returned by work() is between 0 and len(out), the
\* positions written during the call are exactly the first ret positions of out, and ret
\* is the number of positions written (the same holds of output_idx all through a call).
C4_OutputBound ==
    /\ 0 <= output_idx /\ output_idx <= Len(out)
    /\ WrittenPositions = 1..output_idx
    /\ Cardinality(WrittenPositions) = output_idx
    /\ pc = "idle" => (ret = output_idx /\ 0 <= ret /\ ret <= Len(out))

\* a call that returns after filling a part of the output region
C4_Witness ==
    /\ pc = "idle" /\ event = "pushed_back"
    /\ 0 < ret /\ ret < Len(out)
    /\ n_written > 0

\* C5: when the packet of an extracted frame does not fit, the step that puts the frame
\* back leaves the queue element for element as it was just before the extraction, writes
\* nothing to the output and ends the call.
C5_PushBackRestores ==
    [][ (block = "encoder" /\ event' = "pushed_back") =>
            /\ pc = "encode"
            /\ sample_buffer' = at_extract
            /\ out' = out
            /\ output_idx' = output_idx
            /\ pc' = "idle" /\ ret' = output_idx ]_vars

\* a stereo frame of two different samples was put back in front of queued samples
C5_Witness ==
    /\ block = "encoder" /\ pc = "idle" /\ event = "pushed_back"
    /\ channels = 2
    /\ Len(sample_buffer) > frame_size_samples
    /\ sample_buffer[1] # sample_buffer[2]
    /\ nin > 0

\* the first encode of a call that follows a push-back is in progress
FirstEncodeAfterPushBack ==
    block = "encoder" /\ pc = "encode" /\ n_codec_calls = 1 /\ pending # <<>>

\* the frame in the codec's hands is the frame the previous call pushed back
EncodesPendingFrame ==
    /\ Unshaped(frame_samples, channels) = pending[1]
    /\ int16_samples = [i \in 1..Len(pending[1]) |-> Quantize(pending[1][i])]

\* C6 as stated: after a push-back on call N, the first frame handed to encoder.encode on
\* call N+1 is the pushed-back frame, for every input chunk of call N+1, overflowing or not.
C6_PushBackOrdering_Stated == FirstEncodeAfterPushBack => EncodesPendingFrame

\* C6 as amended: the same, for every input chunk of call N+1 that does not make the
\* queue exceed its capacity.
C6_PushBackOrdering ==
    (FirstEncodeAfterPushBack /\ before + nin <= max_buffer_samples)
        => EncodesPendingFrame

\* call N+1 brought new samples without overflow and encodes the pushed-back frame first
C6_Witness ==
    /\ FirstEncodeAfterPushBack
    /\ nin > 0 /\ before + nin <= max_buffer_samples
    /\ EncodesPendingFrame

\* C7: the packet written for a pushed-back frame on call N+1 is byte-identical to the
\* packet encoder.encode returned for that frame on call N (the one that did not fit),
\* for every codec engine, also one that keeps history across encode invocations.
C7_PushBackByteIdentity ==
    [][ (FirstEncodeAfterPushBack /\ EncodesPendingFrame /\ event' = "written"
            /\ output_idx' > output_idx) =>
            WrittenItems(out', output_idx') = pending[2] ]_vars

\* a variable-mode call has returned without accepting any candidate
NoMatchCallReturned ==
    /\ block = "decoder" /\ packet_size = 0 /\ pc = "idle"
    /\ event \in {"no_match", "loop_ended"}
    /\ n_written = 0

\* C8 as stated: a variable-mode call that accepts no candidate returns with
\* len(packet_buffer) = length before the call + number of input bytes, for every prior
\* queue length up to the capacity.
C8_NoMatchKeepsBytes_Stated ==
    NoMatchCallReturned => Len(packet_buffer) = before + nin

\* C8 as amended: the same when length before + input bytes is within the capacity;
\* otherwise the call returns with a queue of exactly the capacity.
C8_NoMatchKeepsBytes ==
    NoMatchCallReturned => Len(packet_buffer) = Min(max_buffer_size, before + nin)

\* a call that added bytes to a non-empty queue, tried candidates and matched none
C8_Witness ==
    /\ NoMatchCallReturned /\ event = "no_match"
    /\ before > 0 /\ nin > 0 /\ n_codec_calls > 1
    /\ Len(packet_buffer) = before + nin

\* C9: in variable-size mode bytes leave the queue and samples reach the output only in
\* the step that accepts a candidate, and only when decoder.decode returned without
\* raising, the PCM is not empty and its peak absolute amplitude is above 100.
C9_AcceptanceGate ==
    [][ (block = "decoder" /\ packet_size = 0
            /\ pc \in {"ladder", "while", "for", "gate"}
            /\ (packet_buffer' # packet_buffer \/ out' # out
                    \/ output_idx' # output_idx)) =>
            /\ pc = "gate"
            /\ ~raised
            /\ decoded_pcm # <<>>
            /\ TruePeak(decoded_pcm) > 100
            /\ packet_buffer' =
                  SubSeq(packet_buffer, Len(packet) + 1, Len(packet_buffer))
            /\ output_idx' > output_idx ]_vars

\* a candidate was accepted after an earlier candidate of the same call was rejected
C9_Witness ==
    /\ block = "decoder" /\ packet_size = 0 /\ event = "accepted"
    /\ n_codec_calls > 1 /\ n_written = 1

\* C10: in fixed-size mode every loop iteration removes exactly packet_size bytes from the
\* queue front before decoder.decode is attempted; whatever decode does, the bytes are not
\* put back and the loop goes on; a failed or empty decode writes nothing.
C10_FixedSizeDiscard ==
    [][ (block = "decoder" /\ packet_size > 0) =>
            /\ (pc = "fixed" /\ pc' # "idle") =>
                 /\ pc' = "fixed_result"
                 /\ Len(packet') = packet_size
                 /\ packet_buffer = packet' \o packet_buffer'
            /\ pc = "fixed_result" =>
                 /\ packet_buffer' = packet_buffer
                 /\ pc' = "fixed"
                 /\ (raised \/ decoded_pcm = <<>>) =>
                        (out' = out /\ output_idx' = output_idx) ]_vars

\* a slice failed to decode and the loop is about to take the next slice
C10_Witness ==
    /\ block = "decoder" /\ packet_size > 0
    /\ pc = "fixed" /\ event = "decode_failed"
    /\ DecFixedCond

\* C11: when encoder.encode raises on an extracted frame, the loop ends and the call
\* returns at once with the count written before the failure; the frame is not put back
\* (the queue is what was behind the frame at the extraction, in the same order), and
\* the output written so far is left as it is.
C11_EncodeFailure ==
    [][ (block = "encoder" /\ event' = "encode_failed") =>
            /\ pc = "encode" /\ pc' = "idle"
            /\ at_extract = Unshaped(frame_samples, channels) \o sample_buffer'
            /\ sample_buffer' = Drop(at_extract, frame_size_samples)
            /\ out' = out
            /\ output_idx' = output_idx
            /\ n_written' = n_written
            /\ ret' = output_idx
            /\ WrittenItems(out', ret') = WrittenItems(out, output_idx) ]_vars

\* a call that ended on an encode failure with a later frame still queued
C11_Witness ==
    /\ block = "encoder" /\ pc = "idle" /\ event = "encode_failed"
    /\ n_codec_calls = 1
    /\ Len(sample_buffer) >= frame_size_samples

\* the step just taken left encoder.encode / decoder.decode by an exception
CodecFailed == event \in {"encode_failed", "decode_failed", "rejected_failed"}

\* work() has returned a count of the output region and can be called again
ReturnedNormally ==
    /\ pc = "idle"
    /\ ret = output_idx /\ 0 <= ret /\ ret <= Len(out)
    /\ block = "encoder" => ENABLED EncWorkCall
    /\ block = "decoder" => ENABLED DecWorkCall

\* C12: after every failure of encoder.encode or decoder.decode during a call of work(),
\* in the encoder, in fixed-size and in variable-size decoding, the call goes on to
\* return a count normally and the block can then be called again.
C12_NoFailureEscapes == CodecFailed ~> ReturnedNormally

\* decoder.decode raised on the last candidate of a variable-size scan: the exception
\* was caught and the call is about to return by the no-match exit
C12_Witness ==
    /\ block = "decoder" /\ packet_size = 0
    /\ event = "rejected_failed" /\ pc = "for"
    /\ cand_idx > Len(packet_size_candidates)
    /\ ENABLED DecVarNoMatch

\* an encoder call that started with less than a frame queued, did not overflow the
\* queue, and returned by the loop condition with room left in the output region (no
\* encode raised, no packet was refused)
WholeFramesCall ==
    /\ block = "encoder" /\ pc = "idle" /\ event = "loop_ended"
    /\ before < frame_size_samples
    /\ before + nin <= max_buffer_samples
    /\ ret < Len(out)

\* C13: an encoder call that starts with less than a frame queued and brings the queue
\* to exactly k frames without overflow, with output room to spare and no encode
\* failure, invokes encoder.encode exactly k times, each time on the frame at the head
\* of the queue (so on the k frames in arrival order), writes every packet, returns the
\* number of bytes written and leaves the queue empty; a call that delivers exactly one
\* frame leaves the queue as long as it found it.
C13_WholeFramesDrain ==
    /\ [](WholeFramesCall =>
            /\ (before + nin) % frame_size_samples = 0 =>
                  /\ n_codec_calls = (before + nin) \div frame_size_samples
                  /\ n_written = n_codec_calls
                  /\ sample_buffer = <<>>
                  /\ ret = Cardinality(WrittenPositions)
            /\ nin = frame_size_samples =>
                  /\ n_codec_calls = 1
                  /\ Len(sample_buffer) = before)
    /\ [][ (block = "encoder" /\ event' = "extracted") =>
             /\ sample_buffer = Unshaped(frame_samples', channels) \o sample_buffer'
             /\ Len(Unshaped(frame_samples', channels)) = frame_size_samples
             /\ int16_samples' = QuantizeFrame(frame_samples', channels)
             /\ n_codec_calls' = n_codec_calls + 1 ]_vars
    /\ [][ (block = "encoder" /\ event' = "written") =>
             /\ output_idx' >= output_idx
             /\ \A i \in 1..Len(out) :
                    (out'[i] # NoVal /\ out[i] = NoVal)
                        <=> (output_idx < i /\ i <= output_idx') ]_vars

\* a call that found the queue empty, received two frames and encoded both
C13_Witness ==
    /\ WholeFramesCall
    /\ before = 0 /\ nin = 2 * frame_size_samples
    /\ n_codec_calls = 2 /\ n_written = 2
    /\ ret > 0
    /\ sample_buffer = <<>>

\* the queue of the current encoder call held less than one frame after the append step
InsufficientData ==
    /\ block = "encoder"
    /\ Min(max_buffer_samples, before + nin) < frame_size_samples

\* C14: when the encoder queue holds less than one frame after the append step, the
\* append step has made it the previous queue followed by the whole input, nothing is
\* extracted, encoder.encode is not invoked, nothing is written, the call returns 0 and
\* the queue is still the previous queue followed by the input.
C14_InsufficientData ==
    /\ [][ (InsufficientData /\ pc = "append" /\ pc' # "append") =>
             /\ sample_buffer' = sample_buffer \o in0
             /\ excess' = 0 ]_vars
    /\ [][ (InsufficientData /\ pc \in {"loop", "encode"}) =>
             /\ pc' = "idle" /\ event' = "loop_ended"
             /\ sample_buffer' = sample_buffer
             /\ out' = out
             /\ ret' = 0 ]_vars
    /\ [](InsufficientData /\ pc \in {"loop", "encode", "idle"} =>
             /\ pc # "encode"
             /\ n_codec_calls = 0
             /\ n_written = 0
             /\ output_idx = 0
             /\ WrittenPositions = {}
             /\ Len(sample_buffer) = before + nin)

\* a stereo call that delivered a single sample and had output room: it returned 0 and
\* kept the sample
C14_Witness ==
    /\ InsufficientData
    /\ pc = "idle" /\ event = "loop_ended"
    /\ nin > 0 /\ Len(out) > 0
    /\ ret = 0
    /\ Len(sample_buffer) = before + nin

\* the queue of the adapter and its capacity
Queue == IF block = "encoder" THEN sample_buffer ELSE packet_buffer
Capacity == IF block = "encoder" THEN max_buffer_samples ELSE max_buffer_size

\* C15: in both adapters the append step comes before any extraction of the call and
\* puts the whole input chunk at the tail of the queue (all of it, or its last capacity
\* elements when the chunk alone is longer than the capacity), whatever len(out) is, 0
\* included; after the append step nothing of the chunk is left over, whatever the call
\* goes on to return.
C15_InputFullyTaken ==
    /\ [][ (pc = "append" /\ pc' # "append") =>
             /\ Len(in0) = nin
             /\ n_codec_calls = 0
             /\ Len(Queue) = before
             /\ Len(Queue') = Min(Capacity, before + nin)
             /\ LastN(Queue', Min(nin, Capacity)) = LastN(in0, Min(nin, Capacity))
             /\ in0' = <<>> ]_vars
    /\ [](pc # "append" => in0 = <<>>)

\* a call with an empty output region has returned 0 and its whole chunk is the tail of
\* the queue
C15_Witness ==
    /\ pc = "idle" /\ Len(out) = 0 /\ ret = 0
    /\ nin = MaxChunk /\ before > 0
    /\ Len(Queue) = before + nin
    /\ in0 = <<>>

\* the length of packet_buffer after the append step of the current call
QueuedAfterAppend == Min(max_buffer_size, before + nin)

\* C16: in fixed-size mode every decode attempt of a call removes packet_size bytes of
\* the queue the append step left, so a call makes at most QueuedAfterAppend div
\* packet_size attempts; once it has made that many the loop condition is false and the
\* call returns; N whole packets delivered to an empty queue give at most N attempts.
C16_FixedDecodeBounded ==
    (block = "decoder" /\ packet_size > 0 /\ pc \in {"fixed", "fixed_result", "idle"}) =>
        /\ n_codec_calls * packet_size + Len(packet_buffer) = QueuedAfterAppend
        /\ n_codec_calls <= QueuedAfterAppend \div packet_size
        /\ (pc = "fixed" /\ n_codec_calls = QueuedAfterAppend \div packet_size) =>
               (~DecFixedCond /\ ENABLED DecFixedReturn)
        /\ (before = 0 /\ nin % packet_size = 0 /\ nin <= max_buffer_size) =>
               n_codec_calls <= nin \div packet_size

\* a fixed-size call that made every attempt its queue allowed, more than one, and
\* returned
C16_Witness ==
    /\ block = "decoder" /\ packet_size > 0
    /\ pc = "idle" /\ event = "loop_ended"
    /\ nin > 0
    /\ n_codec_calls >= 2
    /\ n_codec_calls = QueuedAfterAppend \div packet_size

\* a measure of what is left of the current call of work(): 0 when the call has
\* returned; in a loop it counts the queued elements first and the position inside the
\* iteration (in variable-size mode, the candidates not yet tried) second
CallMeasure ==
    LET L  == Len(Queue)
        NC == Len(packet_size_candidates)
        M  == 2 * NC + 4
        MM == 2 * max_candidates + 4
    IN  CASE pc = "idle"         -> 0
          [] pc = "append"       -> IF block = "encoder"
                                    THEN 2 * (L + Len(in0)) + 3
                                    ELSE MM * (L + Len(in0)) + MM
          [] pc = "loop"         -> 2 * L + 2
          [] pc = "encode"       -> 2 * L + 3
          [] pc = "fixed"        -> 2 * L + 2
          [] pc = "fixed_result" -> 2 * L + 3
          [] pc = "ladder"       -> MM * L + MM - 1
          [] pc = "while"        -> M * L + 2 * NC + 2
          [] pc = "for"          -> M * L + 2 * (NC + 1 - cand_idx) + 1
          [] pc = "gate"         -> M * L + 2 * (NC + 1 - cand_idx)
          [] OTHER               -> -1

\* C17: every call of work(), of the encoder and of the decoder in either mode,
\* returns after finitely many steps whatever the queue, the input, len(out) and the
\* codec's results are: every step inside a call lowers a natural-number measure,
\* which is 0 only when the call has returned; a
\* variable-size call makes at most len(packet_size_candidates) decode attempts per
\* accepted packet plus that many in one last scan.
C17_EveryCallTerminates ==
    /\ [](CallMeasure >= 0 /\ (CallMeasure = 0 <=> pc = "idle"))
    /\ [][pc # "idle" => CallMeasure' < CallMeasure]_vars
    /\ []((block = "decoder" /\ packet_size = 0) =>
             n_codec_calls <= Len(packet_size_candidates) * (n_written + 1))

\* a variable-size call that accepted a packet, went through a last scan in vain and
\* returned
C17_Witness ==
    /\ block = "decoder" /\ packet_size = 0
    /\ pc = "idle" /\ event = "no_match"
    /\ n_written >= 1
    /\ n_codec_calls >= 3
    /\ Len(packet_buffer) > 0

\* the set of candidate lengths as stated for a queue of L bytes: the estimate L div 5
\* kept within 40..400, if it is at most L; the listed common sizes that are at most L;
\* and 1, 2, 3, ... up to min(4000, L), taken one by one until the set has 50 members
StatedLadderSet(L) ==
    LET q    == L \div 5
        est  == IF q < 40 THEN 40 ELSE IF q > 400 THEN 400 ELSE q
        base == (IF est <= L THEN {est} ELSE {})
                   \cup { c \in {60, 80, 100, 120, 150, 180, 200, 250, 300, 350, 400} :
                            c <= L }
        top  == IF L < 4000 THEN L ELSE 4000
        \* base \cup 1..k has at least k members, so the fiftieth member comes at a k <= 50
        full == { k \in 1..Min(top, 50) : Cardinality(base \cup (1..k)) >= 50 }
        m    == IF full = {} THEN top ELSE CHOOSE k \in full : \A j \in full : k <= j
    IN  base \cup (1..m)

\* C18: the candidate list built for a queue of L bytes is the ascending list, without
\* repetition, of the stated set: the estimate clamp(L div 5, 40, 400) if at most L, the
\* common sizes at most L, and the integers from 1 up to min(4000, L) added one by one
\* until there are 50 candidates; it has at most 50 entries, all between 1 and L, and
\* none when L = 0.
C18_CandidateLadder ==
    (block = "decoder" /\ event = "ladder_built") =>
        LET L == Len(packet_buffer)
            c == packet_size_candidates
        IN  /\ { c[i] : i \in 1..Len(c) } = StatedLadderSet(L)
            /\ \A i \in 1..(Len(c) - 1) : c[i] < c[i + 1]
            /\ Len(c) <= 50
            /\ \A i \in 1..Len(c) : 1 <= c[i] /\ c[i] <= L
            /\ L = 0 => c = <<>>

\* the list built for 225 bytes: the estimate 45, the seven common sizes up to 200, and
\* 1..42, which fills the list to 50
C18_Witness ==
    /\ block = "decoder" /\ event = "ladder_built" /\ pc = "while"
    /\ Len(packet_buffer) = 225
    /\ Len(packet_size_candidates) = 50
    /\ packet_size_candidates[42] = 42
    /\ packet_size_candidates[43] = 45
    /\ packet_size_candidates[50] = 200

\* the current decoder call found the queue full and delivered at least one byte
FullQueueCall ==
    /\ block = "decoder"
    /\ before = max_buffer_size
    /\ nin >= 1

\* C19 as stated: a decoder call that finds the queue at capacity and delivers k >= 1
\* bytes returns with a queue of exactly capacity bytes, in either mode.
C19_OverflowAtCapacity_Stated ==
    (FullQueueCall /\ pc = "idle") => Len(packet_buffer) = max_buffer_size

\* C19, amended: when the decoder queue is at capacity and a call delivers k >= 1 bytes,
\* the append step leaves exactly capacity bytes, the old queue followed by the input
\* without its k oldest bytes; from then on to the return the queue is shorter by what
\* the call's decoding has removed: packet_size bytes per decode attempt in fixed-size
\* mode, the accepted packets in variable-size mode, so it still has capacity bytes at
\* the return only if no attempt was made (fixed) or no packet accepted (variable).
C19_OverflowAtCapacity ==
    /\ [][ (FullQueueCall /\ pc = "append" /\ pc' # "append") =>
             /\ Len(packet_buffer) = max_buffer_size
             /\ Len(in0) = nin
             /\ excess' = nin
             /\ Len(packet_buffer') = max_buffer_size
             /\ packet_buffer' = Drop(packet_buffer \o in0, nin) ]_vars
    /\ []((FullQueueCall /\ pc # "append") =>
             /\ Len(packet_buffer) <= max_buffer_size
             /\ packet_size > 0 =>
                   Len(packet_buffer) = max_buffer_size - n_codec_calls * packet_size
             /\ packet_size = 0 =>
                   (Len(packet_buffer) = max_buffer_size <=> n_written = 0))

\* a variable-size call that found the queue full, received a byte, accepted a packet
\* and returned with less than capacity bytes queued
C19_Witness ==
    /\ FullQueueCall /\ pc = "idle"
    /\ packet_size = 0
    /\ n_written >= 1
    /\ Len(packet_buffer) < max_buffer_size

\* the second instance has returned from its first call
SecondReturned == twin.first # <<>> /\ pc = "idle" /\ event # "constructed"

\* C20: two encoder instances constructed afresh with the same configuration and given
\* the same input chunk and the same len(out) as their first call return the same
\* count, write the same bytes to the same positions and are left with the same queue,
\* the engine answering as a function of its construction and of the frames handed to it.
C20_Determinism ==
    SecondReturned => <<ret, out, sample_buffer>> = twin.first

\* both instances wrote a packet and then put back a second frame whose packet did not
\* fit
C20_Witness ==
    /\ SecondReturned
    /\ event = "pushed_back"
    /\ n_written >= 1 /\ ret >= 1
    /\ twin.first[1] = ret
    /\ Len(sample_buffer) > 0

\* the decoder of the round trip is inside or past its first call
TripDecoding == block = "decoder" /\ twin.first # <<>> /\ event # "constructed"

C22_ConstructionFailure ==
    /\ [](\A i \in 1..Len(objects) :
            objects[i].state = "failed" =>
                ~Registered(i) /\ objects[i].refs = 0)
    /\ [][\A i \in 1..Len(objects) :
            /\ (objects[i].state = "mapped" /\ objects'[i].state = "failed") =>
                  /\ instances' = instances
                  /\ objects'[i].refs = 0
            /\ objects[i].state = "failed" =>
                  objects'[i].state \in {"failed", "finalized"} ]_vars

\* an encoder whose bitrate could not be set and a decoder whose engine could not be
\* created, next to each other
C22_Witness ==
    /\ Len(objects) = 2
    /\ objects[1].kind = "encoder" /\ objects[1].state = "failed"
    /\ objects[1].codec = "engine"
    /\ objects[2].kind = "decoder" /\ objects[2].state = "failed"
    /\ instances = <<>>

\* the string s is the lower-case word w up to the case of its letters
SameIgnoringCase(s, w) ==
    /\ Len(s) = Len(w)
    /\ \A k \in 1..Len(w) :
          \/ s[k] = w[k]
          \/ \E j \in 1..Len(LowerCase) : LowerCase[j] = w[k] /\ UpperCase[j] = s[k]

\* C23: an encoder constructor called with any application string gets past the
\* mapping without raising, and self.application is the VOIP mode when the string is
\* "voip" in any mix of cases, the RESTRICTED_LOWDELAY mode when it is "lowdelay" in any
\* mix of cases, and the AUDIO mode for "audio" in any mix of cases and for every
\* other string.
C23_ApplicationMode ==
    \A i \in 1..Len(objects) :
        (objects[i].state = "mapped" /\ objects[i].kind = "encoder") =>
            objects[i].application =
                IF SameIgnoringCase(objects[i].arg, <<"v", "o", "i", "p">>)
                THEN "APPLICATION_VOIP"
                ELSE IF SameIgnoringCase(objects[i].arg,
                                         <<"l", "o", "w", "d", "e", "l", "a", "y">>)
                     THEN "APPLICATION_RESTRICTED_LOWDELAY"
                     ELSE "APPLICATION_AUDIO"

\* an encoder being constructed with "VoIp", after one constructed with "LowDelay"
C23_Witness ==
    /\ Len(objects) = 2
    /\ objects[1].kind = "encoder" /\ objects[1].state = "live"
    /\ objects[1].application = "APPLICATION_RESTRICTED_LOWDELAY"
    /\ objects[2].kind = "encoder" /\ objects[2].state = "mapped"
    /\ objects[2].arg = <<"V", "o", "I", "p">>
    /\ objects[2].application = "APPLICATION_VOIP"

\* t is the fraction n/d times 32767 with its fractional part cut off (toward zero)
IsTruncationOf(t, n, d) ==
    LET x == n * 32767
    IN  IF x >= 0 THEN t >= 0 /\ t * d <= x /\ x < (t + 1) * d
                  ELSE t <= 0 /\ t * d >= x /\ x > (t - 1) * d

InScanLoop == block = "decoder" /\ pc \in {"while", "for", "gate"}

\* C25: a step that accepts a candidate of length n removes exactly the first n bytes
\* of the queue (the rest stays, in order) and writes the converted samples from the
\* current output offset on, as many as fit, leaving the other positions alone; the
\* scan that follows starts at the first entry of the list; the list is the one built
\* at the start of the call for as long as the loop runs; and an entry longer than
\* the queue is passed over without a decode.
C25_AcceptanceStep ==
    /\ [][ (InScanLoop /\ pc = "gate" /\ event' = "accepted") =>
             LET n == packet_size_candidates[cand_idx]
                 w == Min(Len(decoded_pcm), Len(out) - output_idx)
             IN  /\ n = Len(packet) /\ n <= Len(packet_buffer)
                 /\ packet_buffer = packet \o packet_buffer'
                 /\ Len(packet_buffer') = Len(packet_buffer) - n
                 /\ output_idx' = output_idx + w
                 /\ Len(out') = Len(out)
                 /\ \A i \in 1..Len(out) :
                       out'[i] = IF i > output_idx /\ i <= output_idx + w
                                 THEN << <<decoded_pcm[i - output_idx], 32767>> >>
                                 ELSE out[i]
                 /\ pc' = "while" ]_vars
    /\ [][ (InScanLoop /\ event' = "scan_started") => cand_idx' = 1 ]_vars
    /\ [][ (InScanLoop /\ pc' \in {"while", "for", "gate"}) =>
             packet_size_candidates' = packet_size_candidates ]_vars
    /\ [][ (InScanLoop /\ pc = "for" /\ cand_idx <= Len(packet_size_candidates)
              /\ packet_size_candidates[cand_idx] > Len(packet_buffer)) =>
             /\ event' = "candidate_skipped"
             /\ n_codec_calls' = n_codec_calls
             /\ packet_buffer' = packet_buffer
             /\ cand_idx' = cand_idx + 1 ]_vars

\* after an accepted packet the second scan of the call has passed over an entry of
\* the list that is longer than what is left of the queue
C25_Witness ==
    /\ InScanLoop /\ pc = "for" /\ event = "candidate_skipped"
    /\ n_written = 1
    /\ Len(packet_buffer) = 1
    /\ packet_size_candidates = <<1, 2, 3>>
    /\ cand_idx = 3

\* the candidate in hand was decoded and its PCM passes the amplitude test of line 186
Passes == ~raised /\ decoded_pcm # <<>> /\ GatePasses(decoded_pcm)

VariableMode == block = "decoder" /\ packet_size = 0

\* C27: in variable-size mode the queue changes only in two kinds of step: the append
\* step, which leaves the old queue followed by the input without the oldest bytes
\* beyond the capacity, and the acceptance of a candidate.  So a call in which no
\* candidate is accepted (every one tried fails, is empty or is taken for silence)
\* returns 0, writes no output position and leaves queued exactly what its append
\* step left; this holds for every call, hence for every later call that finds the
\* same head; the head leaves only by eviction in an append step.
C27_SilenceStalls ==
    /\ [][ (VariableMode /\ packet_buffer' # packet_buffer) =>
             \/ pc = "gate" /\ event' = "accepted"
             \/ /\ pc = "append"
                /\ LET all == packet_buffer \o in0
                       gone == Max(0, Len(all) - max_buffer_size)
                   IN  packet_buffer' = SubSeq(all, gone + 1, Len(all)) ]_vars
    /\ [][ (VariableMode /\ (out' # out \/ output_idx' # output_idx)) =>
             \/ pc = "gate" /\ event' = "accepted"
             \/ pc = "idle"
             \/ pc = "append" /\ out' = out /\ output_idx' = 0 ]_vars
    /\ [](VariableMode /\ pc = "idle" /\ event # "constructed" /\ n_written = 0 =>
            /\ ret = 0
            /\ \A i \in 1..Len(out) : out[i] = NoVal
            /\ Len(packet_buffer) = QueuedAfterAppend)

\* a call that found the queue full, had one more byte delivered, tried every entry of
\* the list and accepted none: the oldest byte was evicted, nothing was decoded
C27_Witness ==
    /\ VariableMode /\ pc = "idle" /\ event = "no_match"
    /\ before = max_buffer_size /\ nin = 1
    /\ n_written = 0 /\ n_codec_calls = 3
    /\ Len(out) > 0
    /\ Len(packet_buffer) = max_buffer_size

\* the step in hand writes the PCM just decoded (either mode)
DecWriteStep ==
    /\ block = "decoder"
    /\ \/ pc = "fixed_result" /\ ~raised /\ decoded_pcm # <<>>
       \/ pc = "gate" /\ Passes

\* C28: in both modes, a step that writes PCM longer than the room left in the output
\* region writes exactly the first (len(out) - output_idx) samples, filling the region,
\* and drops the rest: the PCM is held nowhere once the step is done, so nothing of it
\* reaches a later call; the packet's bytes are out of the queue all the same (taken
\* out before the decode in fixed-size mode, by the accepting step in variable-size
\* mode).
C28_DecoderTruncates ==
    /\ [][ (DecWriteStep /\ Len(decoded_pcm) > Len(out) - output_idx) =>
             LET room == Len(out) - output_idx
             IN  /\ output_idx' = Len(out)
                 /\ Len(out') = Len(out)
                 /\ \A i \in 1..Len(out) :
                       out'[i] = IF i > output_idx
                                 THEN << <<decoded_pcm[i - output_idx], 32767>> >>
                                 ELSE out[i]
                 /\ room >= 1
                 /\ decoded_pcm' = <<>> /\ packet' = <<>>
                 /\ IF pc = "gate"
                    THEN packet_buffer = packet \o packet_buffer'
                    ELSE /\ packet_buffer' = packet_buffer
                         /\ Len(packet_buffer) + n_codec_calls * packet_size
                               = QueuedAfterAppend ]_vars
    /\ [](block = "decoder" /\ pc \in {"idle", "append", "fixed", "ladder", "while"} =>
            decoded_pcm = <<>>)
    /\ [][ (block = "decoder" /\ pc = "idle") =>
             /\ output_idx' = 0
             /\ \A i \in 1..Len(out') : out'[i] = NoVal ]_vars

\* a stereo packet was decoded with room for one sample: one sample was written, the
\* packet is gone, the loop is over
C28_Witness ==
    /\ block = "decoder" /\ packet_size = 2 /\ channels = 2
    /\ pc = "fixed" /\ event = "written"
    /\ Len(out) = 1 /\ output_idx = 1
    /\ n_written = 1
    /\ before + nin = 2 /\ packet_buffer = <<>>

\* C29: an adapter object to which the caller holds no reference any more and over
\* which a garbage collection has run since is finalized: it is off _instances and its
\* engine reference is cleared.  (Violated: _instances itself holds the object, so the
\* collection cannot reach its __del__.)
C29_InstanceCleanup ==
    \A i \in 1..Len(objects) :
        (objects[i].refs = 0 /\ objects[i].gc_ran) =>
            /\ objects[i].state = "finalized"
            /\ ~Registered(i)
            /\ objects[i].codec # "engine"

\* the positions of a sequence of stream samples
Positions(samples) == [i \in 1..Len(samples) |-> StreamPosition(samples[i])]

\* the positions are consecutive and end at position last
ContiguousUpTo(ps, last) == \A i \in 1..Len(ps) : ps[i] = last - Len(ps) + i

\* the samples of the stream that work() has appended to the queue so far
Appended == stream.received - Len(in0)

\* C30: the queue is at every moment the last Len(sample_buffer) samples appended so
\* far, in stream order (with the frame in hand, if any, lying just before it or
\* having been dropped from in front of it); and every frame whose packet is written
\* is a run of consecutive stream positions that starts after the last position of
\* every frame written before, so written frames are disjoint and in arrival order.
C30_ArrivalOrder ==
    /\ [](block = "encoder" =>
            /\ ContiguousUpTo(Positions(sample_buffer), Appended)
            /\ pc = "encode" =>
                  LET frame == Positions(Unshaped(frame_samples, channels))
                  IN  /\ Len(frame) = frame_size_samples
                      /\ ContiguousUpTo(frame, Appended - Len(sample_buffer))
            /\ stream.written <= Appended - Len(sample_buffer))
    /\ [][ (block = "encoder" /\ pc = "encode" /\ event' = "written") =>
             LET frame == Positions(Unshaped(frame_samples, channels))
             IN  /\ frame[1] > stream.written
                 /\ \A i \in 1..(Len(frame) - 1) : frame[i + 1] = frame[i] + 1
                 /\ stream.written' = frame[Len(frame)]
                 /\ sample_buffer' = sample_buffer ]_vars
    /\ [][ stream.written' # stream.written =>
             (pc = "encode" /\ event' = "written"
                /\ stream.written' > stream.written) ]_vars

\* the second frame of a call is written, up to the newest sample of the stream, in a
\* call whose append step evicted samples left queued by a push-back
C30_Witness ==
    /\ block = "encoder" /\ event = "written"
    /\ before > 0 /\ before + nin > max_buffer_samples
    /\ stream.written = stream.received
    /\ n_written = 2

\* the length of sample_buffer after the append step of the current call
EncQueuedAfterAppend == Min(max_buffer_samples, before + nin)

\* the encoder is at the return of encoder.encode for the head frame of the call
HeadFrameEncoded == block = "encoder" /\ pc = "encode" /\ n_codec_calls = 1

\* C31: the first encode of a call is made on the head frame of the queue the append
\* step left, with nothing written yet; its packet is refused only when it is longer
\* than len(out), otherwise it is written, which puts the packet's length into
\* output_idx; output_idx never goes down during the call and is what the call
\* returns, so a non-empty head packet that fits gives a return value above 0.  A call
\* that wrote a packet returns with the queue at least one frame shorter than its
\* append step left it; with no input in the call that is one frame shorter than the
\* call found it, so such calls bring a queue of n frames below one frame in at most n
\* calls.
C31_EncoderProgress ==
    /\ [][ HeadFrameEncoded =>
             /\ output_idx = 0 /\ n_written = 0
             /\ Len(sample_buffer) = EncQueuedAfterAppend - frame_size_samples
             /\ event' = "pushed_back" => Len(pushed'[2]) > Len(out)
             /\ event' = "written" =>
                   /\ n_written' = 1
                   /\ sample_buffer' = sample_buffer
                   /\ \A i \in 1..Len(out) : (out'[i] # NoVal) <=> i <= output_idx' ]_vars
    /\ [][ (block = "encoder" /\ pc \in {"loop", "encode"}) =>
             /\ output_idx' >= output_idx
             /\ pc' = "idle" => ret' = output_idx' ]_vars
    /\ [](block = "encoder" /\ pc \in {"loop", "encode", "idle"} /\ n_written >= 1 =>
            /\ Len(sample_buffer)
                  + (IF pc = "encode" THEN frame_size_samples ELSE 0)
                 <= EncQueuedAfterAppend - n_written * frame_size_samples
            /\ (pc = "idle" /\ nin = 0) =>
                  Len(sample_buffer) <= before - frame_size_samples)

\* a call without input found two frames queued, wrote the head frame's one-byte
\* packet and had the packet of the second refused: it returned 1, one frame shorter
C31_Witness ==
    /\ block = "encoder" /\ pc = "idle" /\ event = "pushed_back"
    /\ nin = 0 /\ before = 2 * frame_size_samples
    /\ n_codec_calls = 2 /\ n_written = 1
    /\ ret = 1
    /\ Len(sample_buffer) = frame_size_samples

\* C32: in fixed-size mode with packet size P the k-th decode attempt since
\* construction is made on the stream bytes at positions (k-1)*P + E up to k*P + E
\* (exclusive), E being the number of bytes evicted so far: on [(k-1)*P, k*P) as long
\* as nothing was evicted, whatever the chunks and the output capacities were, and
\* shifted by the evicted bytes from then on (E only grows and enters every later
\* slice, so an E that is not a multiple of P leaves the slices off the packet
\* boundaries for good).  The queue is the stream from the end of the last slice, or
\* from the eviction point, up to the last byte appended.
C32_FixedModeAlignment ==
    /\ [][ (block = "decoder" /\ pc = "fixed" /\ pc' = "fixed_result") =>
             LET P == packet_size
                 k == stream.attempts'
                 E == stream.evicted
             IN  /\ k = stream.attempts + 1
                 /\ Len(packet') = P
                 /\ \A i \in 1..P : packet'[i] = (k - 1) * P + E + (i - 1)
                 /\ E = 0 => packet'[1] = (k - 1) * P /\ packet'[P] = k * P - 1
                 /\ packet'[1] % P = E % P ]_vars
    /\ [][ /\ stream.evicted' >= stream.evicted
           /\ stream.evicted' > stream.evicted =>
                 (pc = "append" /\ stream.evicted' = stream.evicted + excess') ]_vars
    /\ [](block = "decoder" /\ pc # "append" =>
            \A i \in 1..Len(packet_buffer) :
                packet_buffer[i] = stream.attempts * packet_size + stream.evicted
                                      + (i - 1))

\* the second attempt of a decoder with packet size 2, made after one byte was evicted,
\* is on the stream bytes 3 and 4
C32_Witness ==
    /\ block = "decoder" /\ pc = "fixed_result"
    /\ packet_size = 2
    /\ stream.attempts = 2 /\ stream.evicted = 1
    /\ packet = <<3, 4>>

\* the stream position, counted from 0, of a stream sample
Position0(s) == StreamPosition(s) - 1

\* C33: a 2-channel encoder that is only ever given chunks of whole sample pairs evicts
\* whole pairs only, holds a queue of whole pairs that starts at an even stream
\* position, and extracts every frame at an even stream position, so that the frame
\* handed to encoder.encode begins with a channel-0 sample and its rows are the pairs
\* of the stream; push-backs and encode failures do not change this.
C33_ChannelAlignment ==
    /\ [](/\ channels = 2
          /\ excess % channels = 0
          /\ Len(sample_buffer) % channels = 0
          /\ sample_buffer # <<>> => Position0(sample_buffer[1]) % channels = 0
          /\ pc = "encode" =>
                /\ Len(frame_samples) = frame_size
                /\ \A r \in 1..Len(frame_samples) :
                      /\ Len(frame_samples[r]) = channels
                      /\ Position0(frame_samples[r][1]) % channels = 0
                      /\ Position0(frame_samples[r][2])
                            = Position0(frame_samples[r][1]) + 1)
    /\ [][ (pc = "append" /\ pc' # "append") =>
             /\ excess' % channels = 0
             /\ Len(sample_buffer') = Len(sample_buffer \o in0) - excess' ]_vars

\* a frame extracted in a call whose append step evicted a pair left by a push-back
C33_Witness ==
    /\ pc = "encode" /\ channels = 2
    /\ before > 0 /\ before + nin > max_buffer_samples
    /\ Position0(frame_samples[1][1]) = 2

\* C34: whatever the queue length, no entry of the candidate list is above 400, and
\* the entries that come from the sequential fill (those that are neither the estimate
\* nor a listed common size) are at most 50; so every packet handed to decoder.decode
\* in variable-size mode has at most 400 bytes, and an accepted packet takes at most
\* 400 bytes off the queue.
C34_PacketLengthCapped ==
    /\ [](block = "decoder" /\ packet_size = 0 /\ pc \in {"while", "for", "gate"} =>
            LET c == packet_size_candidates
                q == nin \div 5
                est == IF q < 40 THEN 40 ELSE IF q > 400 THEN 400 ELSE q
            IN  /\ \A i \in 1..Len(c) :
                      /\ c[i] <= 400
                      /\ c[i] \in {est, 60, 80, 100, 120, 150, 180, 200, 250, 300,
                                   350, 400} \/ c[i] <= 50
                /\ pc = "gate" =>
                      /\ Len(packet) <= 400
                      /\ Len(packet) = c[cand_idx])
    /\ [][ (block = "decoder" /\ packet_size = 0 /\ event' = "accepted") =>
             /\ Len(packet_buffer) - Len(packet_buffer') = Len(packet)
             /\ Len(packet_buffer) - Len(packet_buffer') <= 400 ]_vars

\* of a queue of 450 bytes the candidate of 400 bytes, the last of the list, was
\* accepted after the 49 shorter ones were rejected: 50 bytes are left
C34_Witness ==
    /\ block = "decoder" /\ packet_size = 0
    /\ event = "accepted"
    /\ nin = 450
    /\ cand_idx = 50 /\ packet_size_candidates[50] = 400
    /\ n_codec_calls = 50
    /\ Len(packet_buffer) = 50

\* C35: in variable-size mode every candidate whose decode succeeded with non-empty PCM
\* and whose peak absolute amplitude over its signed 16-bit samples is above 100 is
\* accepted by the silence check, a signal whose only sample above the threshold is
\* -32768 included.
C35_GateOverFullRange ==
    [][ (/\ block = "decoder" /\ packet_size = 0 /\ pc = "gate"
         /\ ~raised /\ decoded_pcm # <<>>
         /\ TruePeak(decoded_pcm) > 100) => event' = "accepted" ]_vars

====
